---- MODULE Spec2Model ----
(***************************************************************************)
(* A model of the replication + transactional storage kernel:              *)
(*   - the transaction store (src/src/storage/txn/store.rs) over the MVCC  *)
(*     layer and the ordered KV engine;                                    *)
(*   - the Raft state machine (src/src/raft/raft.rs).                      *)
(* The MVCC layer (storage::mvcc::MvccTxn), the engine, the Raft log and    *)
(* the progress bookkeeping are not part of the excerpted sources; they    *)
(* are modelled from sections 4.A, 4.C and 4.F of the specification.       *)
(***************************************************************************)
EXTENDS Integers, Sequences, FiniteSets, TLC

VARIABLES lockCF, writeCF, defaultCF, oracle, starts, commitOf, hist, raft,
          clients, punch, rocks, seen, heard, run, group

vars == <<lockCF, writeCF, defaultCF, oracle, starts, commitOf, hist, raft,
          clients, punch, rocks, seen, heard, run, group>>

(***************************************************************************)
(* Bounds                                                                  *)
(***************************************************************************)
NumKeys == 2
MaxTs == 4
MaxTxns == 2
MaxAnyTxns == 1
MaxTtl == 1
NumClients == 2
MaxIncTs == 8
NumVals == 2
MaxWrites == 3
MaxRegionKeys == 36
MaxCheckerKeys == 6
MaxValueSize == 8
MaxCopies == 3
MaxHalfKeys == 12

Keys == 1..NumKeys
Ts == 1..MaxTs
None == 0
Clients == 1..NumClients

(***************************************************************************)
(* 4.A  Ordered KV abstraction: one column family is a map, kept as the    *)
(* set of its entries [k, v]; a put of an existing key overwrites.         *)
(***************************************************************************)
CfHas(cf, k) == \E e \in cf : e.k = k
CfGet(cf, k) == IF CfHas(cf, k) THEN (CHOOSE e \in cf : e.k = k).v ELSE None
CfPut(cf, k, v) == {e \in cf : e.k # k} \cup {[k |-> k, v |-> v]}
CfDelete(cf, k) == {e \in cf : e.k # k}

\* write_batch(ops): the modifications of one batch applied in order, atomically.
RECURSIVE WriteBatch(_, _)
WriteBatch(E, mods) ==
    IF mods = <<>> THEN E
    ELSE LET m == Head(mods)
             E1 == IF m.op = "put"
                     THEN [E EXCEPT ![m.cf] = CfPut(E[m.cf], m.k, m.v)]
                     ELSE [E EXCEPT ![m.cf] = CfDelete(E[m.cf], m.k)]
         IN WriteBatch(E1, Tail(mods))

Engine == [lock |-> lockCF, write |-> writeCF, default |-> defaultCF]

(***************************************************************************)
(* 4.F  MVCC transaction layer: a transient object bound to the engine it  *)
(* reads from and a start_ts; it reads the engine, never its own staged    *)
(* modifications, and produces a batch of modifications.                   *)
(***************************************************************************)
Ok(val) == [err |-> "Ok", val |-> val, primary |-> None, ts |-> None]
Err(e) == [err |-> e, val |-> None, primary |-> None, ts |-> None]
KeyIsLocked(lock) ==
    [err |-> "KeyIsLocked", val |-> None, primary |-> lock.primary, ts |-> lock.start_ts]

\* Step 2 of get: the Write CF of key scanned downward from commit_ts = c.
RECURSIVE MvccSeekWrite(_, _, _)
MvccSeekWrite(E, key, c) ==
    IF c < 1 THEN None
    ELSE LET w == CfGet(E.write, <<key, c>>)
         IN IF ~CfHas(E.write, <<key, c>>) THEN MvccSeekWrite(E, key, c - 1)
            ELSE IF w.kind = "Put" THEN CfGet(E.default, <<key, w.start_ts>>)
            ELSE IF w.kind = "Delete" THEN None
            ELSE MvccSeekWrite(E, key, c - 1)

MvccGet(E, key, start_ts) ==
    LET lock == CfGet(E.lock, key)
    IN IF CfHas(E.lock, key) /\ lock.start_ts <= start_ts
         THEN KeyIsLocked(lock)
         ELSE Ok(MvccSeekWrite(E, key, start_ts))

\* A mutation is [kind, key, value]; ttl is the lock's time to live.
MvccPrewrite(E, mutation, primary, start_ts, ttl) ==
    LET key == mutation.key
        lock == CfGet(E.lock, key)
    IN IF \E e \in E.write : e.k[1] = key /\ e.k[2] >= start_ts
         THEN [res |-> Err("WriteConflict"), mods |-> <<>>]
       ELSE IF CfHas(E.lock, key) /\ lock.start_ts # start_ts
         THEN [res |-> KeyIsLocked(lock), mods |-> <<>>]
       ELSE [res |-> Ok(None),
             mods |-> <<[op |-> "put", cf |-> "lock", k |-> key,
                         v |-> [primary |-> primary, start_ts |-> start_ts,
                                ttl |-> ttl, kind |-> mutation.kind]]>>
                      \o (IF mutation.kind = "Put"
                            THEN <<[op |-> "put", cf |-> "default",
                                    k |-> <<key, start_ts>>, v |-> mutation.value]>>
                            ELSE <<>>)]

\* The write record of start_ts for key, if the transaction committed it.
MvccCommitted(E, key, start_ts) ==
    \E e \in E.write : e.k[1] = key /\ e.v.start_ts = start_ts /\ e.v.kind # "Rollback"

MvccCommit(E, key, start_ts, commit_ts) ==
    LET lock == CfGet(E.lock, key)
    IN IF CfHas(E.lock, key) /\ lock.start_ts = start_ts
         THEN [res |-> Ok(None),
               mods |-> <<[op |-> "put", cf |-> "write", k |-> <<key, commit_ts>>,
                           v |-> [start_ts |-> start_ts, kind |-> lock.kind]],
                          [op |-> "del", cf |-> "lock", k |-> key, v |-> None]>>]
       ELSE IF MvccCommitted(E, key, start_ts)
         THEN [res |-> Ok(None), mods |-> <<>>]
       ELSE [res |-> Err("TxnLockNotFound"), mods |-> <<>>]

\* rollback removes the transaction's own lock and value and leaves a Rollback
\* marker at start_ts; a transaction that committed the key cannot roll it back.
MvccRollback(E, key, start_ts) ==
    LET lock == CfGet(E.lock, key)
        marker == [op |-> "put", cf |-> "write", k |-> <<key, start_ts>>,
                   v |-> [start_ts |-> start_ts, kind |-> "Rollback"]]
    IN IF CfHas(E.lock, key) /\ lock.start_ts = start_ts
         THEN [res |-> Ok(None),
               mods |-> <<[op |-> "del", cf |-> "lock", k |-> key, v |-> None],
                          [op |-> "del", cf |-> "default", k |-> <<key, start_ts>>,
                           v |-> None],
                          marker>>]
       ELSE IF MvccCommitted(E, key, start_ts)
         THEN [res |-> Err("Committed"), mods |-> <<>>]
       ELSE [res |-> Ok(None), mods |-> <<marker>>]

(***************************************************************************)
(* 4.G  Transaction store (src/src/storage/txn/store.rs).  Every call      *)
(* holds the shard mutex of its keys while it runs, so a call is one step.  *)
(* A call returns [res, E]: its result and the engine it leaves.            *)
(***************************************************************************)
\* Mutant: a read that meets a blocking lock removes it.
TxnStoreGetResolving(E, key, start_ts) ==
    LET r == MvccGet(E, key, start_ts)
    IN [res |-> r,
        E |-> IF r.err = "KeyIsLocked" THEN [E EXCEPT !.lock = CfDelete(@, key)] ELSE E]

\* Mutant: a read that does not look at the lock of the key.
TxnStoreGetUnlocked(E, key, start_ts) ==
    [res |-> Ok(MvccSeekWrite(E, key, start_ts)), E |-> E]

\* TxnStore::get: no submit, the engine is left as it was.
TxnStoreGet(E, key, start_ts) == [res |-> MvccGet(E, key, start_ts), E |-> E]

\* A key of the engine is the encoded user key, alone or followed by a timestamp.
\* A place of the cursor is 2 * k for the user key k and 2 * k + 1 for k followed
\* by a zero byte, the least key above k: bytes::encode_bytes keeps the order.
encode_bytes(key) == 2 * key
push_zero(key) == encode_bytes(key) + 1
\* The user keys that have an entry in the engine.
UserKeys(E) ==
    {e.k : e \in E.lock} \cup {e.k[1] : e \in E.default} \cup {e.k[1] : e \in E.write}
\* engine.seek(place), then bytes::decode_bytes: the user key of the first entry
\* at or after the place, None if there is none.
engine_seek(E, place) ==
    LET ge == {k \in UserKeys(E) : encode_bytes(k) >= place}
    IN IF ge = {} THEN None ELSE CHOOSE k \in ge : \A j \in ge : k <= j

\* An item of the result of scan: Ok((key, value)) or Err(e).
ScanOk(key, value) == [key |-> key, res |-> Ok(value)]
ScanErr(res) == [key |-> None, res |-> res]

\* Mutant: a key without a visible value counts as one of the limit results.
RECURSIVE TxnStoreScanCounting(_, _, _, _)
TxnStoreScanCounting(E, place, limit, start_ts) ==
    LET next_key == engine_seek(E, place)
        r == MvccGet(E, next_key, start_ts)
    IN IF limit = 0 \/ next_key = None THEN <<>>
       ELSE (IF r.err # "Ok" THEN <<ScanErr(r)>>
             ELSE IF r.val # None THEN <<ScanOk(next_key, r.val)>>
             ELSE <<>>)
            \o TxnStoreScanCounting(E, push_zero(next_key), limit - 1, start_ts)

\* while results.len() < limit { ... }
RECURSIVE ScanLoop(_, _, _, _, _)
ScanLoop(E, place, limit, start_ts, results) ==
    IF ~(Len(results) < limit) THEN results
    ELSE LET next_key == engine_seek(E, place)
             r == MvccGet(E, next_key, start_ts)
         IN IF next_key = None THEN results
            ELSE ScanLoop(E, push_zero(next_key), limit, start_ts,
                          IF r.err # "Ok" THEN Append(results, ScanErr(r))
                          ELSE IF r.val # None THEN Append(results, ScanOk(next_key, r.val))
                          ELSE results)

\* TxnStore::scan from the place of the start key: no submit.
TxnStoreScan(E, place, limit, start_ts) == ScanLoop(E, place, limit, start_ts, <<>>)

\* for w in writes { try!(txn.prewrite(w, &primary)); }: the first error returns.
RECURSIVE PrewriteLoop(_, _, _, _, _, _)
PrewriteLoop(E, writes, primary, start_ts, ttl, mods) ==
    IF writes = <<>> THEN [res |-> Ok(None), mods |-> mods]
    ELSE LET r == MvccPrewrite(E, Head(writes), primary, start_ts, ttl)
         IN IF r.res.err # "Ok" THEN [res |-> r.res, mods |-> <<>>]
            ELSE PrewriteLoop(E, Tail(writes), primary, start_ts, ttl, mods \o r.mods)

\* Mutant: every mutation is written to the engine as soon as it is staged.
RECURSIVE TxnStorePrewriteEach(_, _, _, _, _)
TxnStorePrewriteEach(E, writes, primary, start_ts, ttl) ==
    IF writes = <<>> THEN [res |-> Ok(None), E |-> E]
    ELSE LET r == MvccPrewrite(E, Head(writes), primary, start_ts, ttl)
         IN IF r.res.err # "Ok" THEN [res |-> r.res, E |-> E]
            ELSE TxnStorePrewriteEach(WriteBatch(E, r.mods), Tail(writes), primary,
                                      start_ts, ttl)

\* ttl is no argument of TxnStore::prewrite: it is the time to live that MvccTxn
\* gives the locks of the call, whatever it is.
TxnStorePrewrite(E, writes, primary, start_ts, ttl) ==
    LET r == PrewriteLoop(E, writes, primary, start_ts, ttl, <<>>)
    IN [res |-> r.res, E |-> WriteBatch(E, r.mods)]

RECURSIVE CommitLoop(_, _, _, _, _)
CommitLoop(E, keys, start_ts, commit_ts, mods) ==
    IF keys = <<>> THEN [res |-> Ok(None), mods |-> mods]
    ELSE LET r == MvccCommit(E, Head(keys), start_ts, commit_ts)
         IN IF r.res.err # "Ok" THEN [res |-> r.res, mods |-> <<>>]
            ELSE CommitLoop(E, Tail(keys), start_ts, commit_ts, mods \o r.mods)

\* Mutant: only the first key of the call is committed.
TxnStoreCommitFirst(E, keys, start_ts, commit_ts) ==
    LET r == CommitLoop(E, SubSeq(keys, 1, 1), start_ts, commit_ts, <<>>)
    IN [res |-> r.res, E |-> WriteBatch(E, r.mods)]

\* Mutant: the write record is put at start_ts instead of commit_ts.
TxnStoreCommitAtStartTs(E, keys, start_ts, commit_ts) ==
    LET r == CommitLoop(E, keys, start_ts, start_ts, <<>>)
    IN [res |-> r.res, E |-> WriteBatch(E, r.mods)]

\* Mutant: every key is written to the engine as soon as it is staged.
RECURSIVE TxnStoreCommitEach(_, _, _, _)
TxnStoreCommitEach(E, keys, start_ts, commit_ts) ==
    IF keys = <<>> THEN [res |-> Ok(None), E |-> E]
    ELSE LET r == MvccCommit(E, Head(keys), start_ts, commit_ts)
         IN IF r.res.err # "Ok" THEN [res |-> r.res, E |-> E]
            ELSE TxnStoreCommitEach(WriteBatch(E, r.mods), Tail(keys), start_ts, commit_ts)

TxnStoreCommit(E, keys, start_ts, commit_ts) ==
    LET r == CommitLoop(E, keys, start_ts, commit_ts, <<>>)
    IN [res |-> r.res, E |-> WriteBatch(E, r.mods)]

RECURSIVE RollbackLoop(_, _, _, _)
RollbackLoop(E, keys, start_ts, mods) ==
    IF keys = <<>> THEN [res |-> Ok(None), mods |-> mods]
    ELSE LET r == MvccRollback(E, Head(keys), start_ts)
         IN IF r.res.err # "Ok" THEN [res |-> r.res, mods |-> <<>>]
            ELSE RollbackLoop(E, Tail(keys), start_ts, mods \o r.mods)

\* Mutant: only the first key of the call is rolled back.
TxnStoreRollbackFirst(E, keys, start_ts) ==
    LET r == RollbackLoop(E, SubSeq(keys, 1, 1), start_ts, <<>>)
    IN [res |-> r.res, E |-> WriteBatch(E, r.mods)]

\* Mutant: the staged modifications are never submitted.
TxnStoreRollbackNoSubmit(E, keys, start_ts) ==
    [res |-> RollbackLoop(E, keys, start_ts, <<>>).res, E |-> E]

TxnStoreRollback(E, keys, start_ts) ==
    LET r == RollbackLoop(E, keys, start_ts, <<>>)
    IN [res |-> r.res, E |-> WriteBatch(E, r.mods)]

(***************************************************************************)
(* The Raft state machine of one peer (src/src/raft/raft.rs).  raft is the  *)
(* Raft struct; raft.msgs holds the messages the last call has sent         *)
(* (the caller takes them after each call); raft.panicked tells that a      *)
(* call has panicked, after which the struct is used no more.               *)
(* The storage is empty at the start; the log is the snapshot it was last   *)
(* restored from (none at the start) followed by its entries.  An entry is  *)
(* its term and its type, its index is its position after the snapshot;     *)
(* max_size_per_msg is NO_LIMIT.                                            *)
(***************************************************************************)
NumPeers == 3
MaxTerm == 2
MaxLog == 3
MaxPropose == 2
MaxInflight == 1
ElectionTick == 2
HeartbeatTick == 1
INVALID_ID == 0
SelfId == 1

Peers == 1..NumPeers
Others == Peers \ {SelfId}
Min(a, b) == IF a <= b THEN a ELSE b
Max(a, b) == IF a >= b THEN a ELSE b

EntryTypes == {"EntryNormal", "EntryConfChange"}
Entry(term, entry_type) == [term |-> term, entry_type |-> entry_type]
\* Entry::new()
NewEntry == Entry(0, "EntryNormal")

\* A panic at a place of the code.
Panic(r, at) == [r EXCEPT !.panicked = TRUE, !.panic_at = at]

(***************************************************************************)
(* 4.C  The Raft log (raft::raft_log::RaftLog).                            *)
(***************************************************************************)
\* A snapshot: the index and the term of its last entry, the nodes of its
\* conf_state.  NoSnapshot is Snapshot::new().
NoSnapshot == [index |-> 0, term |-> 0, nodes |-> {}]
first_index(r) == r.raft_log.snap.index + 1
last_index(r) == r.raft_log.snap.index + Len(r.raft_log.ents)
\* term(i): the term of entry i (of the snapshot at its index), 0 outside the log.
log_term(r, i) ==
    IF i = r.raft_log.snap.index THEN r.raft_log.snap.term
    ELSE IF i >= first_index(r) /\ i <= last_index(r)
         THEN r.raft_log.ents[i - r.raft_log.snap.index].term
    ELSE 0
last_term(r) == log_term(r, last_index(r))
\* entries(i, NO_LIMIT): the entries from index i on (i >= first_index).
log_entries(r, i) ==
    SubSeq(r.raft_log.ents, i - r.raft_log.snap.index, Len(r.raft_log.ents))
match_term(r, i, term) == log_term(r, i) = term
is_up_to_date(r, idx, term) ==
    term > last_term(r) \/ (term = last_term(r) /\ idx >= last_index(r))

\* The index of the first of ents (which follow index idx) that does not match
\* the log, 0 if all match.
find_conflict(r, idx, ents) ==
    LET bad == {k \in 1..Len(ents) : ~match_term(r, idx + k, ents[k].term)}
    IN IF bad = {} THEN 0 ELSE idx + (CHOOSE k \in bad : \A j \in bad : k <= j)

\* append(ents): truncate the log after index after, then append.
log_append(r, after, ents) ==
    [r EXCEPT !.raft_log.ents = SubSeq(@, 1, after - r.raft_log.snap.index) \o ents]

\* restore(snapshot): the log is the snapshot alone, committed at its index.
log_restore(r, snap) ==
    [r EXCEPT !.raft_log = [ents |-> <<>>, committed |-> snap.index, snap |-> snap]]

commit_to(r, tocommit) ==
    IF r.raft_log.committed < tocommit
    THEN IF last_index(r) < tocommit
         THEN Panic(r, "tocommit is out of range")
         ELSE [r EXCEPT !.raft_log.committed = tocommit]
    ELSE r

\* maybe_append(idx, term, committed, ents) -> Option<last new index>
log_maybe_append(r, idx, term, committed, ents) ==
    IF match_term(r, idx, term)
    THEN LET lastnewi == idx + Len(ents)
             ci == find_conflict(r, idx, ents)
             r1 == IF ci = 0 THEN r
                   ELSE IF ci <= r.raft_log.committed THEN Panic(r, "entry conflicts with a committed entry")
                   ELSE log_append(r, ci - 1, SubSeq(ents, ci - idx, Len(ents)))
         IN [r |-> IF r1.panicked THEN r1 ELSE commit_to(r1, Min(committed, lastnewi)),
             some |-> TRUE, last |-> lastnewi]
    ELSE [r |-> r, some |-> FALSE, last |-> 0]

\* RaftLog::maybe_commit(max_index, term)
log_maybe_commit(r, max_index, term) ==
    IF max_index > r.raft_log.committed /\ log_term(r, max_index) = term
    THEN [r |-> commit_to(r, max_index), ok |-> TRUE]
    ELSE [r |-> r, ok |-> FALSE]

(***************************************************************************)
(* 4.C  Progress and its inflight window (raft::progress).                 *)
(***************************************************************************)
reset_state(pr, state) ==
    [pr EXCEPT !.paused = FALSE, !.pending_snapshot = 0, !.state = state, !.ins = <<>>]
become_probe(pr) ==
    IF pr.state = "Snapshot"
    THEN [reset_state(pr, "Probe") EXCEPT
             !.next_idx = Max(pr.matched + 1, pr.pending_snapshot + 1)]
    ELSE [reset_state(pr, "Probe") EXCEPT !.next_idx = pr.matched + 1]
become_replicate(pr) == [reset_state(pr, "Replicate") EXCEPT !.next_idx = pr.matched + 1]
become_snapshot(pr, snapshot_idx) ==
    [reset_state(pr, "Snapshot") EXCEPT !.pending_snapshot = snapshot_idx]
snapshot_failure(pr) == [pr EXCEPT !.pending_snapshot = 0]
pause(pr) == [pr EXCEPT !.paused = TRUE]
resume(pr) == [pr EXCEPT !.paused = FALSE]
ins_full(pr) == Len(pr.ins) = MaxInflight
ins_add(pr, idx) == [pr EXCEPT !.ins = Append(@, idx)]
ins_free_to(pr, idx) == [pr EXCEPT !.ins = SelectSeq(@, LAMBDA i : i > idx)]
ins_free_first_one(pr) == [pr EXCEPT !.ins = IF @ = <<>> THEN @ ELSE Tail(@)]
is_paused(pr) ==
    CASE pr.state = "Probe" -> pr.paused
      [] pr.state = "Replicate" -> ins_full(pr)
      [] OTHER -> TRUE
maybe_snapshot_abort(pr) == pr.state = "Snapshot" /\ pr.matched >= pr.pending_snapshot
optimistic_update(pr, n) == [pr EXCEPT !.next_idx = n + 1]
\* maybe_update(n) -> updated
maybe_update(pr, n) ==
    LET p1 == IF pr.matched < n THEN resume([pr EXCEPT !.matched = n]) ELSE pr
        p2 == IF p1.next_idx < n + 1 THEN [p1 EXCEPT !.next_idx = n + 1] ELSE p1
    IN [pr |-> p2, ok |-> pr.matched < n]
\* maybe_decr_to(rejected, last) -> decreased.  The follower's hint moves next_idx
\* down, never to matched or below: matched < next_idx is the invariant of 4.C.
maybe_decr_to(pr, rejected, last) ==
    IF pr.state = "Replicate"
    THEN IF rejected <= pr.matched
         THEN [pr |-> pr, ok |-> FALSE]
         ELSE [pr |-> [pr EXCEPT !.next_idx = pr.matched + 1], ok |-> TRUE]
    ELSE IF pr.next_idx - 1 # rejected
         THEN [pr |-> pr, ok |-> FALSE]
         ELSE [pr |-> resume([pr EXCEPT
                                 !.next_idx = Max(Min(rejected, last + 1), pr.matched + 1)]),
               ok |-> TRUE]

(***************************************************************************)
(* raft.rs                                                                 *)
(***************************************************************************)
new_progress(next_idx) ==
    [matched |-> 0, next_idx |-> next_idx, state |-> "Probe", paused |-> FALSE,
     pending_snapshot |-> 0, recent_active |-> FALSE, ins |-> <<>>]

new_message(to, field_type, from) ==
    [msg_type |-> field_type, to |-> to, from |-> from, term |-> 0, log_term |-> 0,
     index |-> 0, entries |-> <<>>, commit |-> 0, reject |-> FALSE, reject_hint |-> 0,
     snapshot |-> NoSnapshot]

quorum(r) == Cardinality(DOMAIN r.prs) \div 2 + 1

send(r, m) ==
    [r EXCEPT !.msgs = Append(@,
        [m EXCEPT !.from = r.id,
                  !.term = IF m.msg_type # "MsgPropose" THEN r.hs.term ELSE @])]

\* Mutant: a send in Replicate state is not added to the window.
prepare_send_entries_open(r, m, to, term, ents) ==
    LET pr == r.prs[to]
        m1 == [m EXCEPT !.msg_type = "MsgAppend", !.index = pr.next_idx - 1,
                        !.log_term = term, !.entries = ents,
                        !.commit = r.raft_log.committed]
        last == pr.next_idx - 1 + Len(ents)
    IN IF ents = <<>> THEN [r |-> r, m |-> m1]
       ELSE IF pr.state = "Replicate"
            THEN [r |-> [r EXCEPT !.prs[to] = optimistic_update(pr, last)], m |-> m1]
       ELSE IF pr.state = "Probe"
            THEN [r |-> [r EXCEPT !.prs[to] = pause(pr)], m |-> m1]
       ELSE [r |-> Panic(r, "sending append in unhandled state"), m |-> m1]

\* The message and the struct after prepare_send_entries.
prepare_send_entries(r, m, to, term, ents) ==
    LET pr == r.prs[to]
        m1 == [m EXCEPT !.msg_type = "MsgAppend", !.index = pr.next_idx - 1,
                        !.log_term = term, !.entries = ents,
                        !.commit = r.raft_log.committed]
        last == pr.next_idx - 1 + Len(ents)
    IN IF ents = <<>> THEN [r |-> r, m |-> m1]
       ELSE IF pr.state = "Replicate"
            THEN [r |-> [r EXCEPT !.prs[to] = ins_add(optimistic_update(pr, last), last)],
                  m |-> m1]
       ELSE IF pr.state = "Probe"
            THEN [r |-> [r EXCEPT !.prs[to] = pause(pr)], m |-> m1]
       ELSE [r |-> Panic(r, "sending append in unhandled state"), m |-> m1]

\* The message and the struct after prepare_send_snapshot; the snapshot of the
\* log is the one its first index follows.
prepare_send_snapshot(r, m, to) ==
    LET pr == r.prs[to]
        snapshot == r.raft_log.snap
    IN IF ~pr.recent_active THEN [r |-> r, m |-> m]
       ELSE IF snapshot.index = 0
            THEN [r |-> Panic(r, "need non-empty snapshot"),
                  m |-> [m EXCEPT !.msg_type = "MsgSnapshot"]]
       ELSE [r |-> [r EXCEPT !.prs[to] = become_snapshot(pr, snapshot.index)],
             m |-> [m EXCEPT !.msg_type = "MsgSnapshot", !.snapshot = snapshot]]

\* Message::new() with its receiver set: the type of a new message is the first
\* of the enumeration, MsgHup.  The log fails to give the term or the entries
\* when the entries from next_idx on are no longer all in it.
send_append(r, to) ==
    LET pr == r.prs[to]
        m == new_message(to, "MsgHup", INVALID_ID)
    IN IF is_paused(pr) THEN r
       ELSE LET p == IF pr.next_idx < first_index(r)
                     THEN prepare_send_snapshot(r, m, to)
                     ELSE prepare_send_entries(r, m, to,
                                               log_term(r, pr.next_idx - 1),
                                               log_entries(r, pr.next_idx))
            IN IF p.r.panicked THEN p.r ELSE send(p.r, p.m)

\* Mutant: a heartbeat carries the committed index of the leader as it is.
send_heartbeat_committed(r, to) ==
    send(r, [new_message(to, "MsgHeartbeat", INVALID_ID) EXCEPT
                !.commit = r.raft_log.committed])

send_heartbeat(r, to) ==
    send(r, [new_message(to, "MsgHeartbeat", INVALID_ID) EXCEPT
                !.commit = Min(r.prs[to].matched, r.raft_log.committed)])

\* The loops of bcast_append and bcast_heartbeat over the peers ids.
RECURSIVE bcast_append_to(_, _)
bcast_append_to(r, ids) ==
    IF ids = {} \/ r.panicked THEN r
    ELSE LET id == CHOOSE i \in ids : \A j \in ids : i <= j
         IN bcast_append_to(IF id = r.id THEN r ELSE send_append(r, id), ids \ {id})

bcast_append(r) == bcast_append_to(r, DOMAIN r.prs)

RECURSIVE bcast_heartbeat_to(_, _)
bcast_heartbeat_to(r, ids) ==
    IF ids = {} THEN r
    ELSE LET id == CHOOSE i \in ids : \A j \in ids : i <= j
             r1 == IF id = r.id THEN r
                   ELSE [send_heartbeat(r, id) EXCEPT !.prs[id] = resume(@)]
         IN bcast_heartbeat_to(r1, ids \ {id})

bcast_heartbeat(r) == bcast_heartbeat_to(r, DOMAIN r.prs)

\* mis: the matched indexes of the peers ids, then sorted in reverse.
RECURSIVE matched_of(_, _)
matched_of(r, ids) ==
    IF ids = {} THEN <<>>
    ELSE LET id == CHOOSE i \in ids : \A j \in ids : i <= j
         IN <<r.prs[id].matched>> \o matched_of(r, ids \ {id})

RECURSIVE sort_reverse(_)
sort_reverse(s) ==
    IF s = <<>> THEN <<>>
    ELSE LET i == CHOOSE i \in 1..Len(s) : \A j \in 1..Len(s) : s[j] <= s[i]
         IN <<s[i]>> \o sort_reverse(SubSeq(s, 1, i - 1) \o SubSeq(s, i + 1, Len(s)))

maybe_commit_highest(r) ==
    LET mis == sort_reverse(matched_of(r, DOMAIN r.prs))
    IN log_maybe_commit(r, mis[1], r.hs.term)

maybe_commit(r) ==
    LET mis == sort_reverse(matched_of(r, DOMAIN r.prs))
        mci == mis[quorum(r)]
    IN log_maybe_commit(r, mci, r.hs.term)

reset(r, term) ==
    LET r1 == IF r.hs.term # term
              THEN [r EXCEPT !.hs.term = term, !.hs.vote = INVALID_ID]
              ELSE r
    IN [r1 EXCEPT !.lead = INVALID_ID,
                  !.election_elapsed = 0,
                  !.heartbeat_elapsed = 0,
                  !.votes = [p \in {} |-> FALSE],
                  !.prs = [id \in DOMAIN r.prs |->
                              [new_progress(last_index(r) + 1) EXCEPT
                                  !.matched = IF id = r.id THEN last_index(r) ELSE 0]],
                  !.pending_conf = FALSE]

append_entry(r, es) ==
    LET ents == [i \in 1..Len(es) |-> [es[i] EXCEPT !.term = r.hs.term]]
        r1 == log_append(r, last_index(r), ents)
    IN IF r.id \notin DOMAIN r.prs THEN Panic(r1, "append_entry: no progress of the peer itself")
       ELSE maybe_commit([r1 EXCEPT !.prs[r.id] = maybe_update(@, last_index(r1)).pr]).r

become_follower(r, term, lead) ==
    [reset(r, term) EXCEPT !.lead = lead, !.state = "Follower"]

become_candidate(r) ==
    IF r.state = "Leader" THEN Panic(r, "invalid transition [leader -> candidate]")
    ELSE [reset(r, r.hs.term + 1) EXCEPT !.hs.vote = r.id, !.state = "Candidate"]

become_leader(r) ==
    IF r.state = "Follower" THEN Panic(r, "invalid transition [follower -> leader]")
    ELSE LET r1 == [reset(r, r.hs.term) EXCEPT !.lead = r.id, !.state = "Leader"]
             ents == log_entries(r1, r1.raft_log.committed + 1)
             confs == {i \in 1..Len(ents) : ents[i].entry_type = "EntryConfChange"}
         IN IF Cardinality(confs) > 1
            THEN Panic([r1 EXCEPT !.pending_conf = TRUE],
                       "unexpected double uncommitted config entry")
            ELSE append_entry([r1 EXCEPT !.pending_conf = (confs # {})], <<NewEntry>>)

\* poll(id, v) -> the number of the votes granted.  votes[&id] panics when the
\* map has no entry for id.
poll(r, id, v) ==
    IF id \notin DOMAIN r.votes THEN [r |-> Panic(r, "poll: no vote of id"), granted |-> 0]
    ELSE LET r1 == IF ~r.votes[id] THEN [r EXCEPT !.votes[id] = v] ELSE r
         IN [r |-> r1, granted |-> Cardinality({p \in DOMAIN r1.votes : r1.votes[p]})]

RECURSIVE send_request_vote_to(_, _)
send_request_vote_to(r, ids) ==
    IF ids = {} THEN r
    ELSE LET id == CHOOSE i \in ids : \A j \in ids : i <= j
             m == [new_message(id, "MsgRequestVote", INVALID_ID) EXCEPT
                      !.index = last_index(r), !.log_term = last_term(r)]
         IN send_request_vote_to(IF id = r.id THEN r ELSE send(r, m), ids \ {id})

campaign(r) ==
    LET r1 == become_candidate(r)
        p == poll(r1, r1.id, TRUE)
    IN IF r1.panicked THEN r1
       ELSE IF p.r.panicked THEN p.r
       ELSE IF quorum(p.r) = p.granted THEN become_leader(p.r)
       ELSE send_request_vote_to(p.r, DOMAIN p.r.prs)

\* The struct and the flags old_paused, send_append, maybe_commit.
Flags(r, old_paused, send_app, maybe_com) ==
    [r |-> r, old_paused |-> old_paused, send_append |-> send_app, maybe_commit |-> maybe_com]

handle_append_response(r, m) ==
    LET pr == [r.prs[m.from] EXCEPT !.recent_active = TRUE]
    IN IF m.reject
       THEN LET d == maybe_decr_to(pr, m.index, m.reject_hint)
            IN IF d.ok
               THEN Flags([r EXCEPT !.prs[m.from] =
                              IF d.pr.state = "Replicate" THEN become_probe(d.pr) ELSE d.pr],
                          FALSE, TRUE, FALSE)
               ELSE Flags([r EXCEPT !.prs[m.from] = d.pr], FALSE, FALSE, FALSE)
       ELSE LET u == maybe_update(pr, m.index)
                p1 == CASE u.pr.state = "Probe" -> become_replicate(u.pr)
                        [] u.pr.state = "Snapshot" ->
                              IF maybe_snapshot_abort(u.pr) THEN become_probe(u.pr) ELSE u.pr
                        [] u.pr.state = "Replicate" -> ins_free_to(u.pr, m.index)
            IN IF ~u.ok
               THEN Flags([r EXCEPT !.prs[m.from] = u.pr], is_paused(pr), FALSE, FALSE)
               ELSE Flags([r EXCEPT !.prs[m.from] = p1], is_paused(pr), FALSE, TRUE)

handle_snapshot_status(r, m) ==
    LET pr == r.prs[m.from]
    IN [r EXCEPT !.prs[m.from] =
           pause(become_probe(IF m.reject THEN snapshot_failure(pr) ELSE pr))]

check_message_with_progress(r, m) ==
    IF m.from \notin DOMAIN r.prs THEN Flags(r, FALSE, FALSE, FALSE)
    ELSE CASE m.msg_type = "MsgAppendResponse" -> handle_append_response(r, m)
           [] m.msg_type = "MsgHeartbeatResponse" ->
                LET pr == [r.prs[m.from] EXCEPT !.recent_active = TRUE]
                    p1 == IF pr.state = "Replicate" /\ ins_full(pr)
                          THEN ins_free_first_one(pr) ELSE pr
                IN Flags([r EXCEPT !.prs[m.from] = p1], FALSE,
                         p1.matched < last_index(r), FALSE)
           [] m.msg_type = "MsgSnapStatus" ->
                IF r.prs[m.from].state # "Snapshot" THEN Flags(r, FALSE, FALSE, FALSE)
                ELSE Flags(handle_snapshot_status(r, m), FALSE, FALSE, FALSE)
           [] m.msg_type = "MsgUnreachable" ->
                LET pr == r.prs[m.from]
                IN Flags([r EXCEPT !.prs[m.from] =
                             IF pr.state = "Replicate" THEN become_probe(pr) ELSE pr],
                         FALSE, FALSE, FALSE)
           [] OTHER -> Flags(r, FALSE, FALSE, FALSE)

\* check_quorum_active -> active; it resets every recent_active.
check_quorum_active(r) ==
    LET act == Cardinality({id \in DOMAIN r.prs : id = r.id \/ r.prs[id].recent_active})
    IN [r |-> [r EXCEPT !.prs = [id \in DOMAIN r.prs |->
                                    IF id = r.id THEN r.prs[id]
                                    ELSE [r.prs[id] EXCEPT !.recent_active = FALSE]]],
        ok |-> act >= quorum(r)]

step_leader(r, m) ==
    CASE m.msg_type = "MsgBeat" -> bcast_heartbeat(r)
      [] m.msg_type = "MsgCheckQuorum" ->
            LET c == check_quorum_active(r)
            IN IF ~c.ok THEN become_follower(c.r, c.r.hs.term, INVALID_ID) ELSE c.r
      [] m.msg_type = "MsgPropose" ->
            IF m.entries = <<>> THEN Panic(r, "stepped empty MsgProp")
            ELSE IF r.id \notin DOMAIN r.prs THEN r
            ELSE LET es == IF r.pending_conf
                           THEN [i \in 1..Len(m.entries) |->
                                    IF m.entries[i].entry_type = "EntryConfChange"
                                    THEN NewEntry ELSE m.entries[i]]
                           ELSE m.entries
                 IN bcast_append(append_entry(r, es))
      [] m.msg_type = "MsgRequestVote" ->
            send(r, [new_message(m.to, "MsgRequestVoteResponse", INVALID_ID) EXCEPT
                        !.reject = TRUE])
      [] OTHER ->
            LET c == check_message_with_progress(r, m)
                mc == maybe_commit(c.r)
                r1 == IF c.maybe_commit
                      THEN IF mc.ok THEN bcast_append(mc.r) ELSE mc.r
                      ELSE c.r
                send_app == c.send_append \/ (c.maybe_commit /\ ~mc.ok /\ c.old_paused)
            IN IF send_app /\ ~r1.panicked THEN send_append(r1, m.from) ELSE r1

handle_append_entries(r, m) ==
    IF m.index < r.hs.commit
    THEN send(r, [new_message(m.from, "MsgAppendResponse", INVALID_ID) EXCEPT
                     !.index = r.hs.commit])
    ELSE LET a == log_maybe_append(r, m.index, m.log_term, m.commit, m.entries)
         IN IF a.r.panicked THEN a.r
            ELSE IF a.some
            THEN send(a.r, [new_message(m.from, "MsgAppendResponse", INVALID_ID) EXCEPT
                               !.index = a.last])
            ELSE send(a.r, [new_message(m.from, "MsgAppendResponse", INVALID_ID) EXCEPT
                               !.index = m.index, !.reject = TRUE,
                               !.reject_hint = last_index(a.r)])

handle_heartbeat(r, m) ==
    LET r1 == commit_to(r, m.commit)
    IN IF r1.panicked THEN r1
       ELSE send(r1, new_message(m.from, "MsgHeartbeatResponse", INVALID_ID))

\* set_progress(id, matched, next_idx)
set_progress(r, id, matched, next_idx) ==
    [r EXCEPT !.prs = [n \in DOMAIN r.prs \cup {id} |->
                          IF n = id THEN [new_progress(next_idx) EXCEPT !.matched = matched]
                          ELSE r.prs[n]]]

\* Mutant: the peer's own progress is restored with matched = next_idx.
RECURSIVE restore_progress_next(_, _)
restore_progress_next(r, nodes) ==
    IF nodes = {} THEN r
    ELSE LET n == CHOOSE i \in nodes : \A j \in nodes : i <= j
             next_idx == last_index(r) + 1
             matched == IF n = r.id THEN next_idx ELSE 0
         IN restore_progress_next(set_progress(r, n, matched, next_idx), nodes \ {n})

\* The loop of restore_raft over the nodes of the conf_state.
RECURSIVE restore_progress(_, _)
restore_progress(r, nodes) ==
    IF nodes = {} THEN r
    ELSE LET n == CHOOSE i \in nodes : \A j \in nodes : i <= j
             next_idx == last_index(r) + 1
             matched == IF n = r.id THEN next_idx - 1 ELSE 0
         IN restore_progress(set_progress(r, n, matched, next_idx), nodes \ {n})

\* restore_raft(snap) -> Option<bool>
restore_raft(r, snap) ==
    IF match_term(r, snap.index, snap.term)
    THEN [r |-> commit_to(r, snap.index), some |-> TRUE, b |-> FALSE]
    ELSE [r |-> restore_progress([r EXCEPT !.prs = [n \in {} |-> new_progress(1)]],
                                 snap.nodes),
          some |-> FALSE, b |-> FALSE]

\* Mutant: a snapshot at the committed index is refused as one below it is.
restore_above(r, snap) ==
    IF snap.index <= r.raft_log.committed THEN [r |-> r, ok |-> FALSE]
    ELSE LET rr == restore_raft(r, snap)
         IN IF rr.some THEN [r |-> rr.r, ok |-> rr.b]
            ELSE [r |-> log_restore(rr.r, snap), ok |-> TRUE]

\* restore(snap) -> bool
restore(r, snap) ==
    IF snap.index < r.raft_log.committed THEN [r |-> r, ok |-> FALSE]
    ELSE LET rr == restore_raft(r, snap)
         IN IF rr.some THEN [r |-> rr.r, ok |-> rr.b]
            ELSE [r |-> log_restore(rr.r, snap), ok |-> TRUE]

handle_snapshot(r, m) ==
    LET rs == restore(r, m.snapshot)
    IN IF rs.r.panicked THEN rs.r
       ELSE IF rs.ok
       THEN send(rs.r, [new_message(m.from, "MsgAppendResponse", INVALID_ID) EXCEPT
                           !.index = last_index(rs.r)])
       ELSE send(rs.r, [new_message(m.from, "MsgAppendResponse", INVALID_ID) EXCEPT
                           !.index = rs.r.raft_log.committed])

step_candidate(r, m) ==
    LET term == r.hs.term
    IN CASE m.msg_type = "MsgPropose" -> r
         [] m.msg_type = "MsgAppend" ->
               handle_append_entries(become_follower(r, term, m.from), m)
         [] m.msg_type = "MsgHeartbeat" ->
               handle_heartbeat(become_follower(r, term, m.from), m)
         [] m.msg_type = "MsgSnapshot" ->
               handle_snapshot(become_follower(r, term, m.from), m)
         [] m.msg_type = "MsgRequestVote" ->
               send(r, [new_message(m.from, "MsgRequestVoteResponse", INVALID_ID) EXCEPT
                           !.reject = TRUE])
         [] m.msg_type = "MsgRequestVoteResponse" ->
               LET p == poll(r, m.from, ~m.reject)
                   gr == p.granted
               IN IF p.r.panicked THEN p.r
                  ELSE IF quorum(p.r) = gr THEN bcast_append(become_leader(p.r))
                  ELSE IF quorum(p.r) = Cardinality(DOMAIN p.r.votes) - gr
                       THEN become_follower(p.r, term, INVALID_ID)
                  ELSE p.r
         [] OTHER -> r

step_follower(r, m) ==
    CASE m.msg_type = "MsgPropose" ->
            IF r.lead = INVALID_ID THEN r
            ELSE send(r, [m EXCEPT !.to = r.lead])
      [] m.msg_type = "MsgAppend" ->
            handle_append_entries([r EXCEPT !.election_elapsed = 0, !.lead = m.from], m)
      [] m.msg_type = "MsgHeartbeat" ->
            handle_heartbeat([r EXCEPT !.election_elapsed = 0, !.lead = m.from], m)
      [] m.msg_type = "MsgSnapshot" ->
            handle_snapshot([r EXCEPT !.election_elapsed = 0], m)
      [] m.msg_type = "MsgRequestVote" ->
            IF (r.hs.vote = INVALID_ID \/ r.hs.vote = m.from)
               /\ is_up_to_date(r, m.index, m.log_term)
            THEN send([r EXCEPT !.election_elapsed = 0, !.hs.vote = m.from],
                      new_message(m.from, "MsgRequestVoteResponse", INVALID_ID))
            ELSE send(r, [new_message(m.from, "MsgRequestVoteResponse", INVALID_ID) EXCEPT
                             !.reject = TRUE])
      [] OTHER -> r

\* The end of step: hs.commit follows the committed index of the log.
step_done(r2) ==
    IF r2.panicked THEN r2
    ELSE [r2 EXCEPT !.hs.commit = r2.raft_log.committed]

\* The step of the peer in its role, its term being the one of the message.
step_role(r1, m) ==
    step_done(CASE r1.state = "Candidate" -> step_candidate(r1, m)
                [] r1.state = "Follower" -> step_follower(r1, m)
                [] r1.state = "Leader" -> step_leader(r1, m))

\* Mutant: the sender of a MsgRequestVote of a higher term is taken for the leader.
step_lead_from(r, m) ==
    IF m.msg_type = "MsgHup"
    THEN IF r.state # "Leader"
         THEN step_done(campaign(r))
         ELSE r
    ELSE IF m.term # 0 /\ ~(m.term > r.hs.term) THEN r
    ELSE step_role(IF m.term > r.hs.term
                   THEN become_follower(r, m.term, m.from)
                   ELSE r, m)

\* Mutant: a message of a lower term is handled as a local message is.
step_lower_term(r, m) ==
    IF m.msg_type = "MsgHup"
    THEN IF r.state # "Leader"
         THEN step_done(campaign(r))
         ELSE r
    ELSE IF m.term # 0 /\ m.term = r.hs.term THEN r
    ELSE step_role(IF m.term > r.hs.term
                   THEN become_follower(r, m.term,
                            IF m.msg_type = "MsgRequestVote" THEN INVALID_ID ELSE m.from)
                   ELSE r, m)

step(r, m) ==
    IF m.msg_type = "MsgHup"
    THEN IF r.state # "Leader"
         THEN step_done(campaign(r))
         ELSE r
    ELSE IF m.term # 0 /\ ~(m.term > r.hs.term) THEN r
    ELSE step_role(IF m.term > r.hs.term
                   THEN become_follower(r, m.term,
                            IF m.msg_type = "MsgRequestVote" THEN INVALID_ID ELSE m.from)
                   ELSE r, m)

\* promotable: the peer is in its own progress map.
promotable(r) == r.id \in DOMAIN r.prs

\* is_election_timeout, draw being what rng.gen_range(0, election_timeout) returns.
is_election_timeout(r, draw) ==
    IF r.election_elapsed < r.election_timeout THEN FALSE
    ELSE r.election_elapsed - r.election_timeout > draw

\* Mutant: a peer outside its own configuration counts the ticks as any other.
tick_election_any(r, draw) ==
    LET r1 == [r EXCEPT !.election_elapsed = @ + 1]
    IN IF is_election_timeout(r1, draw)
       THEN step([r1 EXCEPT !.election_elapsed = 0],
                 new_message(INVALID_ID, "MsgHup", r.id))
       ELSE r1

tick_election(r, draw) ==
    IF ~promotable(r) THEN [r EXCEPT !.election_elapsed = 0]
    ELSE LET r1 == [r EXCEPT !.election_elapsed = @ + 1]
         IN IF is_election_timeout(r1, draw)
            THEN step([r1 EXCEPT !.election_elapsed = 0],
                      new_message(INVALID_ID, "MsgHup", r.id))
            ELSE r1

\* tick_heartbeat at the election timeout: the leader checks its quorum.
tick_heartbeat_check(r1) ==
    IF r1.election_elapsed >= r1.election_timeout
    THEN LET r0 == [r1 EXCEPT !.election_elapsed = 0]
         IN IF r0.check_quorum
            THEN step(r0, new_message(INVALID_ID, "MsgCheckQuorum", r1.id))
            ELSE r0
    ELSE r1

\* tick_heartbeat at the heartbeat timeout: the peer that is still leader beats.
tick_heartbeat_beat(r2) ==
    IF r2.panicked \/ r2.state # "Leader" THEN r2
    ELSE IF r2.heartbeat_elapsed >= r2.heartbeat_timeout
    THEN step([r2 EXCEPT !.heartbeat_elapsed = 0],
              new_message(INVALID_ID, "MsgBeat", r2.id))
    ELSE r2

tick_heartbeat(r) ==
    tick_heartbeat_beat(tick_heartbeat_check(
        [r EXCEPT !.heartbeat_elapsed = @ + 1, !.election_elapsed = @ + 1]))

tick(r, draw) ==
    IF r.state = "Leader" THEN tick_heartbeat(r) ELSE tick_election(r, draw)

del_progress(r, id) == [r EXCEPT !.prs = [n \in DOMAIN r.prs \ {id} |-> r.prs[n]]]

add_node(r, id) ==
    IF id \in DOMAIN r.prs THEN r
    ELSE [set_progress(r, id, 0, last_index(r) + 1) EXCEPT !.pending_conf = FALSE]

remove_node(r, id) == [del_progress(r, id) EXCEPT !.pending_conf = FALSE]

reset_pending_conf(r) == [r EXCEPT !.pending_conf = FALSE]

\* Raft::new over an empty storage, with the peers of the configuration.
RaftNew ==
    become_follower(
        [id |-> SelfId,
         hs |-> [term |-> 0, vote |-> INVALID_ID, commit |-> 0],
         raft_log |-> [ents |-> <<>>, committed |-> 0, snap |-> NoSnapshot],
         prs |-> [p \in Peers |-> new_progress(1)],
         state |-> "Follower",
         votes |-> [p \in {} |-> FALSE],
         msgs |-> <<>>,
         lead |-> INVALID_ID,
         pending_conf |-> FALSE,
         election_elapsed |-> 0,
         heartbeat_elapsed |-> 0,
         check_quorum |-> FALSE,
         heartbeat_timeout |-> HeartbeatTick,
         election_timeout |-> ElectionTick,
         panicked |-> FALSE,
         panic_at |-> ""],
        0, INVALID_ID)

(***************************************************************************)
(* The calls on the Raft struct: the two transitions towards leadership,    *)
(* and step on a message.  A message stepped is of a term from 0 (a local    *)
(* message) to MaxTerm, from another peer.                                   *)
(***************************************************************************)
InitRaft == raft = RaftNew

\* The caller takes the messages of the call before, then calls.
Taken == [raft EXCEPT !.msgs = <<>>]

\* After a panic the struct is gone: only the place of the panic is kept.
InstallRaft(r) ==
    /\ last_index(r) <= MaxLog
    /\ r.hs.term <= MaxTerm
    /\ raft' = IF r.panicked THEN Panic(RaftNew, r.panic_at) ELSE r
    /\ UNCHANGED <<lockCF, writeCF, defaultCF, oracle, starts, commitOf, hist,
                   clients, punch, rocks, seen, run, group>>

Install(r) ==
    /\ InstallRaft(r)
    /\ UNCHANGED heard

Step(m) ==
    /\ ~raft.panicked
    /\ Install(step(Taken, m))

Received(msg_type, from, term) ==
    [new_message(SelfId, msg_type, from) EXCEPT !.term = term]

\* The entries of a proposal: of any types, without term.
ProposeLists == UNION {[1..n -> {Entry(0, t) : t \in EntryTypes}] : n \in 1..MaxPropose}

BecomeCandidate ==
    /\ ~raft.panicked
    /\ Install(become_candidate(Taken))

BecomeLeader ==
    /\ ~raft.panicked
    /\ Install(become_leader(Taken))

StepHup == Step(new_message(INVALID_ID, "MsgHup", SelfId))

StepCheckQuorum == Step(new_message(INVALID_ID, "MsgCheckQuorum", SelfId))

StepPropose ==
    \E es \in ProposeLists :
        Step([new_message(SelfId, "MsgPropose", SelfId) EXCEPT !.entries = es])

\* A response names an index of the log; a rejection hints at an index not above.
StepAppendResponse ==
    \E from \in Others, t \in 0..MaxTerm, idx \in 0..MaxLog, rej \in BOOLEAN,
       hint \in 0..MaxLog :
        /\ idx <= last_index(raft)
        /\ hint <= idx
        /\ ~rej => hint = 0
        /\ Step([Received("MsgAppendResponse", from, t) EXCEPT
                    !.index = idx, !.reject = rej, !.reject_hint = hint])

StepHeartbeat ==
    \E from \in Others, t \in 0..MaxTerm, c \in 0..MaxLog :
        Step([Received("MsgHeartbeat", from, t) EXCEPT !.commit = c])

StepRequestVote ==
    \E from \in Others, t \in 0..MaxTerm, idx \in 0..MaxLog, lt \in 0..MaxTerm :
        /\ (idx = 0) = (lt = 0)
        /\ Step([Received("MsgRequestVote", from, t) EXCEPT !.index = idx, !.log_term = lt])

StepRequestVoteResponse ==
    \E from \in Others, t \in 0..MaxTerm, rej \in BOOLEAN :
        Step([Received("MsgRequestVoteResponse", from, t) EXCEPT !.reject = rej])

Next ==
    \/ BecomeCandidate
    \/ BecomeLeader
    \/ StepHup
    \/ StepCheckQuorum
    \/ StepPropose
    \/ StepAppendResponse
    \/ StepHeartbeat
    \/ StepRequestVote
    \/ StepRequestVoteResponse

(***************************************************************************)
(* A peer whose configuration changes: the application calls add_node,      *)
(* remove_node and reset_pending_conf when a conf change is applied, and    *)
(* tick at every tick of its clock; draw is what the random generator of    *)
(* is_election_timeout returns.                                             *)
(***************************************************************************)
Tick ==
    \E draw \in 0..(ElectionTick - 1) :
        /\ ~raft.panicked
        /\ Install(tick(Taken, draw))

AddNode ==
    \E id \in Peers :
        /\ ~raft.panicked
        /\ Install(add_node(Taken, id))

RemoveNode ==
    \E id \in Peers :
        /\ ~raft.panicked
        /\ Install(remove_node(Taken, id))

ResetPendingConf ==
    /\ ~raft.panicked
    /\ Install(reset_pending_conf(Taken))

NextConf ==
    \/ BecomeCandidate
    \/ BecomeLeader
    \/ StepCheckQuorum
    \/ StepPropose
    \/ Tick
    \/ AddNode
    \/ RemoveNode
    \/ ResetPendingConf

(***************************************************************************)
(* A leader that checks its quorum.  heard is the set of the peers whose    *)
(* append response or heartbeat response the leader has been handed since   *)
(* its previous check (since its election, before the first check); a       *)
(* response of a lower term is stale and does not count.                    *)
(***************************************************************************)
ResponseTypes == {"MsgAppendResponse", "MsgHeartbeatResponse"}

Checks(r) ==
    /\ r.state = "Leader"
    /\ r.check_quorum
    /\ r.election_elapsed + 1 >= r.election_timeout

CheckBecomeLeader ==
    /\ ~raft.panicked
    /\ InstallRaft(become_leader(Taken))
    /\ heard' = {}

HearResponse ==
    \E from \in Others, ty \in ResponseTypes, t \in 0..MaxTerm :
        /\ ~raft.panicked
        /\ InstallRaft(step(Taken, [Received(ty, from, t) EXCEPT
                                       !.index = last_index(raft)]))
        /\ heard' = IF raft.state = "Leader" /\ t \in {0, raft.hs.term}
                    THEN heard \cup {from}
                    ELSE heard

TickCheck ==
    \E draw \in 0..(ElectionTick - 1) :
        /\ ~raft.panicked
        /\ InstallRaft(tick(Taken, draw))
        /\ heard' = IF Checks(raft) THEN {} ELSE heard

NextCheck ==
    \/ BecomeCandidate
    \/ CheckBecomeLeader
    \/ HearResponse
    \/ TickCheck

(***************************************************************************)
(* A peer that is sent the log: MsgAppend with the entries of a leader and  *)
(* MsgSnapshot with a snapshot of it.  The entries of a message are normal   *)
(* entries of non-zero terms that do not decrease; a snapshot names a last   *)
(* entry of a non-zero term (or none) and the nodes of a configuration.      *)
(***************************************************************************)
MaxAppend == 1
AppendLists ==
    {es \in UNION {[1..n -> {Entry(t, "EntryNormal") : t \in 1..MaxTerm}] : n \in 0..MaxAppend} :
        \A i \in 1..Len(es) : \A j \in i..Len(es) : es[i].term <= es[j].term}
\* The configurations of the snapshots: all the peers, all but the peer itself,
\* the peer alone.
ConfStates == {Peers, Others, {SelfId}}
Snapshots ==
    {sn \in [index : 0..MaxLog, term : 0..MaxTerm, nodes : ConfStates] :
        (sn.index = 0) = (sn.term = 0)}

StepAppend ==
    \E from \in {SelfId + 1}, t \in 0..MaxTerm, idx \in 0..MaxLog, lt \in 0..MaxTerm,
       es \in AppendLists, c \in 0..MaxLog :
        /\ (idx = 0) = (lt = 0)
        /\ es # <<>> => lt <= es[1].term
        /\ Step([Received("MsgAppend", from, t) EXCEPT
                    !.index = idx, !.log_term = lt, !.entries = es, !.commit = c])

StepSnapshot ==
    \E from \in Others, t \in 0..MaxTerm, sn \in Snapshots :
        Step([Received("MsgSnapshot", from, t) EXCEPT !.snapshot = sn])

NextSnap ==
    \/ BecomeCandidate
    \/ StepAppend
    \/ StepSnapshot

(***************************************************************************)
(* A leader that replicates its log: the responses of its followers, the    *)
(* reports of its transport (MsgSnapStatus, MsgUnreachable), its own        *)
(* MsgBeat, and the compaction of its log up to an index that is committed  *)
(* (section 3: entries live until applied and compacted), which leaves the  *)
(* snapshot of that index as the base of the log.                           *)
(***************************************************************************)
log_compact(r, i) ==
    [r EXCEPT !.raft_log.snap = [index |-> i, term |-> log_term(r, i),
                                 nodes |-> DOMAIN r.prs],
              !.raft_log.ents = SubSeq(@, i - r.raft_log.snap.index + 1, Len(@))]

\* The follower that answers is the peer after this one; the other one is
\* silent.
LeadPropose == Step([new_message(SelfId, "MsgPropose", SelfId) EXCEPT !.entries = <<NewEntry>>])

LeadAppendResponse ==
    \E t \in 0..MaxTerm, idx \in 0..MaxLog, rej \in BOOLEAN, hint \in 0..MaxLog :
        /\ idx <= last_index(raft)
        /\ hint <= idx
        /\ ~rej => hint = 0
        /\ Step([Received("MsgAppendResponse", SelfId + 1, t) EXCEPT
                    !.index = idx, !.reject = rej, !.reject_hint = hint])

LeadHeartbeatResponse ==
    \E t \in 0..MaxTerm : Step(Received("MsgHeartbeatResponse", SelfId + 1, t))

LeadSnapStatus ==
    \E rej \in BOOLEAN :
        Step([new_message(SelfId, "MsgSnapStatus", SelfId + 1) EXCEPT !.reject = rej])

LeadUnreachable == Step(new_message(SelfId, "MsgUnreachable", SelfId + 1))

LeadBeat == Step(new_message(INVALID_ID, "MsgBeat", SelfId))

LeadSnapshot ==
    \E t \in 0..MaxTerm, sn \in Snapshots :
        Step([Received("MsgSnapshot", SelfId + 1, t) EXCEPT !.snapshot = sn])

CompactLog ==
    \E i \in 1..MaxLog :
        /\ ~raft.panicked
        /\ first_index(raft) <= i
        /\ i <= raft.raft_log.committed
        /\ Install(log_compact(Taken, i))

NextLead ==
    \/ BecomeCandidate
    \/ BecomeLeader
    \/ LeadPropose
    \/ LeadAppendResponse
    \/ LeadHeartbeatResponse
    \/ LeadSnapStatus
    \/ LeadUnreachable
    \/ LeadBeat
    \/ LeadSnapshot
    \/ CompactLog
    \/ AddNode

(***************************************************************************)
(* A group of three peers.  raft is the peer SelfId, which the group makes  *)
(* its leader; group.peers are the Raft structs of the two others,          *)
(* group.net the messages on their way to each peer, in the order they were *)
(* sent, and group.cut the peers that are partitioned away: a message to or *)
(* from one of them is lost.  Every message a call leaves in msgs is handed *)
(* to the network.  The group runs its peers in turns, group.turn being the *)
(* place in Schedule: each peer ticks and each peer is delivered the first  *)
(* message on its way, over and over, so that ticks and delivery are fair   *)
(* in every run that does not stop.  A peer that has panicked is gone: it   *)
(* does not tick, and a message delivered to it is lost.  The election of   *)
(* the leader, a proposal and the healing of the partition come between two *)
(* rounds of the schedule.                                                  *)
(***************************************************************************)
Slot(kind, id) == [kind |-> kind, id |-> id]

\* After the tick of each peer, a delivery to every peer.
Schedule ==
    [k \in 1..(NumPeers * (NumPeers + 1)) |->
        IF (k - 1) % (NumPeers + 1) = 0
        THEN Slot("tick", ((k - 1) \div (NumPeers + 1)) + 1)
        ELSE Slot("deliver", (k - 1) % (NumPeers + 1))]

GroupNew ==
    [peers |-> [id \in Others |-> [RaftNew EXCEPT !.id = id]],
     net |-> [id \in Peers |-> <<>>],
     cut |-> {NumPeers},
     turn |-> 1]

PeerOf(id) == IF id = SelfId THEN raft ELSE group.peers[id]

NextTurn == (group.turn % Len(Schedule)) + 1

\* The schedule starts when the group has made its leader.
Established == raft.hs.term > 0 \/ raft.panicked

\* The messages of a call that the network takes to the peer to.
Carried(r, to) ==
    IF r.panicked \/ r.id \in group.cut \/ to \in group.cut THEN <<>>
    ELSE SelectSeq(r.msgs, LAMBDA m : m.to = to)

\* The peer id is left as r by a call; net are the messages that were on their
\* way without the one delivered, turn the place in the schedule after it.
InstallPeer(id, r, net, turn) ==
    LET left == IF r.panicked THEN Panic([RaftNew EXCEPT !.id = id], r.panic_at)
                ELSE [r EXCEPT !.msgs = <<>>]
    IN /\ last_index(r) <= MaxLog
       /\ r.hs.term <= MaxTerm
       /\ raft' = IF id = SelfId THEN left ELSE raft
       /\ group' = [peers |-> [p \in Others |-> IF p = id THEN left ELSE group.peers[p]],
                    net |-> [to \in Peers |-> net[to] \o Carried(r, to)],
                    cut |-> group.cut,
                    turn |-> turn]
       /\ UNCHANGED <<lockCF, writeCF, defaultCF, oracle, starts, commitOf, hist,
                      clients, punch, rocks, seen, heard, run>>

\* The turn of a peer that is gone, or of a delivery with nothing to deliver.
GroupSkip ==
    LET slot == Schedule[group.turn]
    IN /\ Established
       /\ \/ slot.kind = "tick" /\ PeerOf(slot.id).panicked
          \/ slot.kind = "deliver" /\ group.net[slot.id] = <<>>
          \/ slot.kind = "deliver" /\ PeerOf(slot.id).panicked
       /\ group' = [group EXCEPT !.turn = NextTurn,
                                 !.net[slot.id] = IF slot.kind = "deliver" THEN <<>> ELSE @]
       /\ UNCHANGED <<lockCF, writeCF, defaultCF, oracle, starts, commitOf, hist, raft,
                      clients, punch, rocks, seen, heard, run>>

GroupHeal ==
    /\ group.turn = 1
    /\ group.cut # {}
    /\ group' = [group EXCEPT !.cut = {}]
    /\ UNCHANGED <<lockCF, writeCF, defaultCF, oracle, starts, commitOf, hist, raft,
                   clients, punch, rocks, seen, heard, run>>

\* The group makes the first peer its leader.
GroupElect ==
    /\ ~raft.panicked
    /\ group.turn = 1
    /\ raft.state = "Follower"
    /\ raft.hs.term = 0
    /\ \E c \in {become_candidate(raft)} :
          \E r \in {become_leader(c)} : InstallPeer(SelfId, r, group.net, group.turn)

GroupPropose ==
    /\ group.turn = 1
    /\ ~raft.panicked
    /\ raft.state = "Leader"
    /\ \E r \in {step(raft, [new_message(SelfId, "MsgPropose", SelfId) EXCEPT
                                !.entries = <<NewEntry>>])} :
          InstallPeer(SelfId, r, group.net, group.turn)

GroupTick ==
    LET slot == Schedule[group.turn]
    IN /\ Established
       /\ slot.kind = "tick"
       /\ ~PeerOf(slot.id).panicked
       /\ \E draw \in 0..(ElectionTick - 1) :
             \E r \in {tick(PeerOf(slot.id), draw)} :
                 InstallPeer(slot.id, r, group.net, NextTurn)

GroupDeliver ==
    LET slot == Schedule[group.turn]
    IN /\ Established
       /\ slot.kind = "deliver"
       /\ group.net[slot.id] # <<>>
       /\ ~PeerOf(slot.id).panicked
       /\ \E r \in {step(PeerOf(slot.id), Head(group.net[slot.id]))} :
             InstallPeer(slot.id, r, [group.net EXCEPT ![slot.id] = Tail(@)], NextTurn)

\* The turn the schedule is at.
GroupRun ==
    \/ GroupSkip
    \/ GroupTick
    \/ GroupDeliver

NextGroup ==
    \/ GroupHeal
    \/ GroupElect
    \/ GroupPropose
    \/ GroupRun

(***************************************************************************)
(* 4.E  The size split check (src/src/raftstore/coprocessor/split_check/    *)
(* size.rs).  run is one run of the split check on a region: the entries    *)
(* of the region in key order, the position of the scan, the Checker, and   *)
(* the split keys it returns.  A key is a sequence of bytes; the keys of a  *)
(* region are the data keys of the four digits of 0, 1, 2, ... as in         *)
(* tests::test_split_check, all values of one size.  keys::data_key,        *)
(* keys::origin_key, KeyEntry and the scan of the split check worker are    *)
(* not part of the sources: a data key is its key after the prefix "z", the *)
(* size of an entry is the length of its key plus that of its value, the    *)
(* approximate size of a region is the size of its entries, and the worker  *)
(* hands the entries in key order to on_kv until it returns true, then      *)
(* calls split_keys.                                                        *)
(***************************************************************************)
RegionMaxSize == 100
RegionSplitSize == 60
BatchSplitLimit == 5

\* format!("{:04}", i)
Format04(i) == <<i \div 1000, (i \div 100) % 10, (i \div 10) % 10, i % 10>>
data_key(key) == <<"z">> \o key
origin_key(key) == Tail(key)

KeyEntry(key, value_size) == [key |-> key, value_size |-> value_size]
entry_size(entry) == Len(entry.key) + entry.value_size

CheckerNew(max_size, split_size, batch_split_limit, policy) ==
    [max_size |-> max_size, split_size |-> split_size, current_size |-> 0,
     split_keys |-> <<>>, batch_split_limit |-> batch_split_limit, policy |-> policy]

\* Mutant: an entry that brings the size to exactly split_size is a split key.
on_kv_at(c, entry) ==
    LET size == entry_size(entry)
        cur == c.current_size + size
        over_limit == Len(c.split_keys) >= c.batch_split_limit
        c1 == IF cur >= c.split_size /\ ~over_limit
              THEN [c EXCEPT !.split_keys = Append(@, origin_key(entry.key)),
                             !.current_size = IF cur - size = c.split_size THEN size ELSE 0]
              ELSE [c EXCEPT !.current_size = cur]
    IN [c |-> c1,
        stop |-> /\ Len(c1.split_keys) >= c1.batch_split_limit
                 /\ c1.current_size + c1.split_size >= c1.max_size]

\* Mutant: the size of the entry that becomes a split key is never carried on.
on_kv_restart(c, entry) ==
    LET size == entry_size(entry)
        cur == c.current_size + size
        over_limit == Len(c.split_keys) >= c.batch_split_limit
        c1 == IF cur > c.split_size /\ ~over_limit
              THEN [c EXCEPT !.split_keys = Append(@, origin_key(entry.key)),
                             !.current_size = 0]
              ELSE [c EXCEPT !.current_size = cur]
    IN [c |-> c1,
        stop |-> /\ Len(c1.split_keys) >= c1.batch_split_limit
                 /\ c1.current_size + c1.split_size >= c1.max_size]

\* on_kv(entry) -> bool, with the Checker it leaves.
on_kv(c, entry) ==
    LET size == entry_size(entry)
        cur == c.current_size + size
        over_limit == Len(c.split_keys) >= c.batch_split_limit
        c1 == IF cur > c.split_size /\ ~over_limit
              THEN [c EXCEPT !.split_keys = Append(@, origin_key(entry.key)),
                             !.current_size = IF cur - size = c.split_size THEN size ELSE 0]
              ELSE [c EXCEPT !.current_size = cur]
    IN [c |-> c1,
        stop |-> /\ Len(c1.split_keys) >= c1.batch_split_limit
                 /\ c1.current_size + c1.split_size >= c1.max_size]

\* Mutant: the last split key is dropped also when the tail is max_size - split_size.
split_keys_upto(c) ==
    LET popped == IF c.current_size + c.split_size <= c.max_size /\ c.split_keys # <<>>
                  THEN SubSeq(c.split_keys, 1, Len(c.split_keys) - 1)
                  ELSE c.split_keys
    IN [c |-> [c EXCEPT !.split_keys = <<>>], keys |-> popped]

\* split_keys() -> Vec<Vec<u8>>, with the Checker it leaves.
split_keys(c) ==
    LET popped == IF c.current_size + c.split_size < c.max_size /\ c.split_keys # <<>>
                  THEN SubSeq(c.split_keys, 1, Len(c.split_keys) - 1)
                  ELSE c.split_keys
    IN [c |-> [c EXCEPT !.split_keys = <<>>], keys |-> popped]

RECURSIVE region_size(_)
region_size(entries) ==
    IF entries = <<>> THEN 0 ELSE entry_size(Head(entries)) + region_size(Tail(entries))

\* SizeCheckObserver::add_checker: the checker it adds to the host, if any.
add_checker(size, policy) ==
    IF size >= RegionMaxSize
    THEN [some |-> TRUE,
          c |-> CheckerNew(RegionMaxSize, RegionSplitSize, BatchSplitLimit,
                           IF size >= RegionMaxSize * BatchSplitLimit * 2
                           THEN "APPROXIMATE" ELSE policy)]
    ELSE [some |-> FALSE, c |-> CheckerNew(0, 0, 0, policy)]

\* task: "region" for a split check task on a region, "checker" for a Checker
\* that is made and fed directly, as the tests of the Checker do, "approximate"
\* for split keys taken from the range properties, "half" for a half split
\* check task.
ScanIdle ==
    [phase |-> "idle", task |-> "none", entries |-> <<>>, tables |-> 0, pos |-> 0,
     checker |-> CheckerNew(0, 0, 0, "SCAN"), keys |-> <<>>]

InstallScan(sc) ==
    /\ run' = sc
    /\ UNCHANGED <<lockCF, writeCF, defaultCF, oracle, starts, commitOf, hist, raft,
                   clients, punch, rocks, seen, heard, group>>

\* The region is filled and a split check task with the Scan policy is run on
\* it: the observer adds a checker when the region is large enough.
SplitCheckTask ==
    \E n \in 1..MaxRegionKeys, value_size \in 0..MaxValueSize :
        LET entries == [i \in 1..n |-> KeyEntry(data_key(Format04(i - 1)), value_size)]
            a == add_checker(region_size(entries), "SCAN")
        IN /\ run.phase = "idle"
           /\ InstallScan([ScanIdle EXCEPT !.phase = IF a.some THEN "scan" ELSE "done",
                                           !.task = "region",
                                           !.entries = entries, !.checker = a.c])

\* The sizes a Checker is made with: split_size, max_size as a multiple of it,
\* batch_split_limit (24, 24, 1 and 20, 10, 1 in the tests of the Checker).
SplitSizes == {10, 24}
MaxSplitRatio == 5
MaxSplitLimit == 3

\* A Checker is made with Checker::new and fed the entries of a region.
CheckerTask ==
    \E split_size \in SplitSizes, ratio \in 1..MaxSplitRatio, limit \in 1..MaxSplitLimit,
       n \in 1..MaxCheckerKeys, value_size \in {4, 5} :
        LET entries == [i \in 1..n |-> KeyEntry(data_key(Format04(i - 1)), value_size)]
        IN /\ run.phase = "idle"
           /\ InstallScan([ScanIdle EXCEPT
                  !.phase = "scan", !.task = "checker", !.entries = entries,
                  !.checker = CheckerNew(split_size * ratio, split_size, limit, "SCAN")])

\* The order of keys (Vec<u8>): byte by byte, a prefix before what it begins.
RECURSIVE key_lt(_, _)
key_lt(a, b) ==
    IF b = <<>> THEN FALSE
    ELSE IF a = <<>> THEN TRUE
    ELSE IF Head(a) = Head(b) THEN key_lt(Tail(a), Tail(b))
    ELSE Head(a) < Head(b)

RECURSIVE insert_key(_, _)
insert_key(sorted, k) ==
    IF sorted = <<>> THEN <<k>>
    ELSE IF key_lt(k, Head(sorted)) THEN <<k>> \o sorted
    ELSE <<Head(sorted)>> \o insert_key(Tail(sorted), k)

\* keys.sort()
RECURSIVE sort_keys(_)
sort_keys(keys) ==
    IF keys = <<>> THEN <<>> ELSE insert_key(sort_keys(Tail(keys)), Head(keys))

\* The range properties of the tables of a column family: of each table the
\* keys of its samples inside the region (props.offsets) and its approximate
\* size in the range of the region.
RECURSIVE collected_keys(_)
collected_keys(collection) ==
    IF collection = <<>> THEN <<>>
    ELSE Head(collection).offsets \o collected_keys(Tail(collection))

RECURSIVE collected_size(_)
collected_size(collection) ==
    IF collection = <<>> THEN 0
    ELSE Head(collection).size + collected_size(Tail(collection))

\* into_iter().skip(n - 1).step_by(n)
step_by(keys, n) == [j \in 1..(Len(keys) \div n) |-> keys[j * n]]

\* get_approximate_split_keys_cf: ok is FALSE for Err.  distance is
\* total_size / len and n the ceiling of split_size / distance, in whole
\* numbers the ceiling of split_size * len / total_size; `distance as u64` is
\* the whole part of total_size / len.
get_approximate_split_keys_cf(collection, split_size, max_size, batch_split_limit) ==
    LET keys == sort_keys(collected_keys(collection))
        total_size == collected_size(collection)
        len == Len(keys)
    IN IF len = 1 THEN [ok |-> TRUE, keys |-> <<>>]
       ELSE IF len = 0 \/ total_size = 0 \/ split_size = 0 THEN [ok |-> FALSE, keys |-> <<>>]
       ELSE LET n == (split_size * len + total_size - 1) \div total_size
                stepped == step_by(keys, n)
                rest == len % n
            IN [ok |-> TRUE,
                keys |-> IF Len(stepped) > batch_split_limit
                         THEN SubSeq(stepped, 1, batch_split_limit)
                         ELSE IF rest * (total_size \div len) + split_size < max_size
                         THEN SubSeq(stepped, 1, Len(stepped) - 1)
                         ELSE stepped]

\* Checker::approximate_split_keys, the data of the region all in the default
\* column family: its share of split_size is
\* split_size * default_cf_size / (default_cf_size + 0).
approximate_split_keys(c, collection) ==
    IF collected_size(collection) = 0 THEN [ok |-> FALSE, keys |-> <<>>]
    ELSE get_approximate_split_keys_cf(collection,
             (c.split_size * collected_size(collection)) \div collected_size(collection),
             c.max_size, c.batch_split_limit)

\* The keys of a region are written and the memtable is flushed after each, so
\* that every key is the one sample of a table of its own
\* (tests::test_get_approximate_split_keys); the key at position again, if
\* any, is then written and flushed copies times more.  The split keys are
\* asked of a Checker with the Approximate policy.
ApproximateTask ==
    \E split_size \in SplitSizes, ratio \in 1..MaxSplitRatio, limit \in 1..MaxSplitLimit,
       n \in 1..MaxCheckerKeys, value_size \in {4, 5},
       again \in 0..MaxCheckerKeys, copies \in 1..MaxCopies :
        LET entries == [i \in 1..n |-> KeyEntry(data_key(Format04(i - 1)), value_size)]
            tables == [i \in 1..(n + (IF again = 0 THEN 0 ELSE copies)) |->
                          LET e == IF i <= n THEN entries[i] ELSE entries[again]
                          IN [offsets |-> <<e.key>>, size |-> entry_size(e)]]
            c == CheckerNew(split_size * ratio, split_size, limit, "APPROXIMATE")
            a == approximate_split_keys(c, tables)
        IN /\ run.phase = "idle"
           /\ again <= n
           /\ a.ok
           /\ InstallScan([ScanIdle EXCEPT
                  !.phase = "done", !.task = "approximate", !.entries = entries,
                  !.checker = c, !.tables = Len(tables),
                  !.keys = [j \in 1..Len(a.keys) |-> origin_key(a.keys[j])]])

OnKv ==
    /\ run.phase = "scan"
    /\ run.checker.policy = "SCAN"
    /\ run.pos < Len(run.entries)
    /\ LET o == on_kv(run.checker, run.entries[run.pos + 1])
       IN InstallScan([run EXCEPT !.pos = @ + 1, !.checker = o.c,
                                   !.phase = IF o.stop THEN "stopped" ELSE "scan"])

SplitKeys ==
    /\ \/ run.phase = "stopped"
       \/ run.phase = "scan" /\ run.pos = Len(run.entries)
    /\ run.checker.policy = "SCAN"
    /\ LET k == split_keys(run.checker)
       IN InstallScan([run EXCEPT !.phase = "done", !.checker = k.c, !.keys = k.keys])

(***************************************************************************)
(* The half split check (src/src/raftstore/coprocessor/split_check/         *)
(* half.rs).                                                                *)
(***************************************************************************)
BUCKET_NUMBER_LIMIT == 1024
BUCKET_SIZE_LIMIT == 512 * 1024 * 1024

\* HalfCheckObserver::new: half_split_bucket_size.
half_split_bucket_size(region_size_limit) ==
    LET size == region_size_limit \div BUCKET_NUMBER_LIMIT
    IN IF size = 0 THEN 1
       ELSE IF size > BUCKET_SIZE_LIMIT THEN BUCKET_SIZE_LIMIT
       ELSE size

HalfCheckerNew(each_bucket_size, policy) ==
    [buckets |-> <<>>, cur_bucket_size |-> 0, each_bucket_size |-> each_bucket_size,
     policy |-> policy]

\* half::Checker::on_kv, which always returns false: the Checker it leaves.
half_on_kv(c, entry) ==
    LET c1 == IF c.buckets = <<>> \/ c.cur_bucket_size >= c.each_bucket_size
              THEN [c EXCEPT !.buckets = Append(@, entry.key), !.cur_bucket_size = 0]
              ELSE c
    IN [c1 EXCEPT !.cur_bucket_size = @ + entry_size(entry)]

\* The worker hands every entry of the region to on_kv, in key order.
RECURSIVE half_scan(_, _)
half_scan(c, entries) ==
    IF entries = <<>> THEN c
    ELSE half_scan(half_on_kv(c, Head(entries)), Tail(entries))

\* half::Checker::split_keys: buckets is 0-based in the code.
half_split_keys(c) ==
    LET mid == Len(c.buckets) \div 2
    IN IF mid = 0 THEN <<>> ELSE <<origin_key(c.buckets[mid + 1])>>

\* get_region_approximate_middle_cf: None is <<>>, Some(key) is <<key>>.
get_region_approximate_middle_cf(collection) ==
    LET keys == sort_keys(collected_keys(collection))
        middle == (Len(keys) - 1) \div 2
    IN IF keys = <<>> THEN <<>> ELSE <<keys[middle + 1]>>

\* half::Checker::approximate_split_keys, the data of the region all in the
\* default column family; the worker takes the prefix of a data key off.
half_approximate_split_keys(collection) ==
    LET ks == get_region_approximate_middle_cf(collection)
    IN [j \in 1..Len(ks) |-> origin_key(ks[j])]

\* The split keys of a half split check of a region under a policy.
HalfCheck(entries, tables, each_bucket_size, policy) ==
    IF policy = "SCAN"
    THEN half_split_keys(half_scan(HalfCheckerNew(each_bucket_size, policy), entries))
    ELSE half_approximate_split_keys(tables)

\* Every key of the region is flushed to a table of its own.
OwnTables(entries) ==
    [i \in 1..Len(entries) |-> [offsets |-> <<entries[i].key>>, size |-> entry_size(entries[i])]]

\* The keys of a region are written, the memtable flushed after each, and a
\* half split check task is run on the region (tests::test_split_check).
HalfCheckTask ==
    \E n \in 1..MaxHalfKeys, value_size \in {4, 5}, region_size_limit \in {1024, 10240},
       policy \in {"SCAN", "APPROXIMATE"} :
        LET entries == [i \in 1..n |-> KeyEntry(data_key(Format04(i - 1)), value_size)]
            size == half_split_bucket_size(region_size_limit)
        IN /\ run.phase = "idle"
           /\ InstallScan([ScanIdle EXCEPT
                  !.phase = "done", !.task = "half", !.entries = entries, !.tables = n,
                  !.pos = IF policy = "SCAN" THEN n ELSE 0,
                  !.checker = IF policy = "SCAN"
                              THEN half_scan(HalfCheckerNew(size, policy), entries)
                              ELSE HalfCheckerNew(size, policy),
                  !.keys = HalfCheck(entries, OwnTables(entries), size, policy)])

NextSize ==
    \/ SplitCheckTask
    \/ CheckerTask
    \/ ApproximateTask
    \/ HalfCheckTask
    \/ OnKv
    \/ SplitKeys

(***************************************************************************)
(* The engine of the Raft store (src/src/raftstore/store/engine.rs): a      *)
(* rocksdb DB and a Snapshot of it.  rocksdb itself is not part of the      *)
(* sources: the DB is modelled as the versions of its keys, each written    *)
(* at a sequence number, and a snapshot as the sequence number at which it  *)
(* was taken; a read with ReadOptions::set_snapshot sees the versions up to *)
(* that number, a plain read sees them all.  A deletion is a version        *)
(* without value.  rocks.at and rocks.cur are the contents at the creation  *)
(* of the snapshot and now, kept as plain maps beside the versions.         *)
(***************************************************************************)
Vals == 1..NumVals
Absent == [k \in Keys |-> None]
RocksNew ==
    [seq |-> 0, vers |-> {}, snap |-> [live |-> FALSE, seq |-> 0],
     at |-> Absent, cur |-> Absent]

\* What a read of the versions up to sequence number upto sees of key.
rocks_get(R, key, upto) ==
    LET vs == {x \in R.vers : x.k = key /\ x.seq <= upto}
    IN IF vs = {} THEN None
       ELSE (CHOOSE x \in vs : \A y \in vs : y.seq <= x.seq).v

\* The pairs <<key, value>> an iterator over the versions up to upto walks,
\* in the order of the keys.
RECURSIVE rocks_iter(_, _, _)
rocks_iter(R, upto, from) ==
    IF from > NumKeys THEN <<>>
    ELSE (IF rocks_get(R, from, upto) = None THEN <<>>
          ELSE <<(<<from, rocks_get(R, from, upto)>>)>>)
         \o rocks_iter(R, upto, from + 1)

\* impl Peekable for DB / for Snapshot: get_value.
DbGetValue(R, key) == rocks_get(R, key, R.seq)
SnapshotGetValue(R, key) == rocks_get(R, key, R.snap.seq)

\* impl Iterable for DB / for Snapshot: new_iterator.
DbNewIterator(R) == rocks_iter(R, R.seq, 1)
\* Mutant: the iterator of a snapshot is made without set_snapshot.
SnapshotNewIteratorPlain(R) == rocks_iter(R, R.seq, 1)
SnapshotNewIterator(R) == rocks_iter(R, R.snap.seq, 1)

\* Iterable::seek: the first pair of the iterator with a key >= key, if any (the
\* Option is the sequence of at most one pair).
seek(it, key) ==
    LET ge == SelectSeq(it, LAMBDA kv : kv[1] >= key)
    IN IF ge = <<>> THEN <<>> ELSE <<Head(ge)>>

\* Iterable::scan over [start_key, end_key) with a visitor that collects the
\* pairs and returns false at its limit-th call (limit >= 1).
RECURSIVE scan_from(_, _, _, _)
scan_from(it, end_key, limit, data) ==
    IF it = <<>> THEN data
    ELSE IF Head(it)[1] >= end_key THEN data
    ELSE IF Len(data) + 1 = limit THEN Append(data, Head(it))
    ELSE scan_from(Tail(it), end_key, limit, Append(data, Head(it)))

scan(it, start_key, end_key, limit) ==
    scan_from(SelectSeq(it, LAMBDA kv : kv[1] >= start_key), end_key, limit, <<>>)

\* The same reads over a plain map of the keys: what the claims compare with.
MapIter(m) == SelectSeq([k \in Keys |-> <<k, m[k]>>], LAMBDA kv : kv[2] # None)

InstallRocks(R) ==
    /\ rocks' = R
    /\ UNCHANGED <<raft, heard, run, group, clients, punch, seen, lockCF, writeCF, defaultCF, oracle,
                   starts, commitOf, hist>>

\* engine.put(key, value) and engine.delete(key)
RocksWrite(key, v) ==
    /\ rocks.seq < MaxWrites
    /\ InstallRocks([rocks EXCEPT !.seq = @ + 1,
                                  !.vers = @ \cup {[k |-> key, seq |-> rocks.seq + 1, v |-> v]},
                                  !.cur[key] = v])

RocksPut == \E key \in Keys, v \in Vals : RocksWrite(key, v)
RocksDelete == \E key \in Keys : RocksWrite(key, None)

\* Snapshot::new(engine.clone())
SnapshotNew ==
    /\ ~rocks.snap.live
    /\ InstallRocks([rocks EXCEPT !.snap = [live |-> TRUE, seq |-> rocks.seq],
                                  !.at = rocks.cur])

\* impl Drop for Snapshot
SnapshotDrop ==
    /\ rocks.snap.live
    /\ InstallRocks([rocks EXCEPT !.snap = [live |-> FALSE, seq |-> 0], !.at = Absent])

NextEngine ==
    \/ RocksPut
    \/ RocksDelete
    \/ SnapshotNew
    \/ SnapshotDrop

(***************************************************************************)
(* The calls of the clients.  hist is the history of the calls that         *)
(* succeeded: which (key, start_ts) were prewritten (with the kind and      *)
(* value last prewritten), committed (with commit_ts) and rolled back.      *)
(***************************************************************************)
\* The key lists of a call: the sequences of distinct keys.
KeyLists == {s \in UNION {[1..n -> Keys] : n \in 1..NumKeys} :
                \A i, j \in 1..Len(s) : i # j => s[i] # s[j]}
Kinds == {"Put", "Delete"}
Mutation(kind, key, value) == [kind |-> kind, key |-> key, value |-> value]
\* The mutation lists over the keys of ks.
MutationLists(ks, value) ==
    {[i \in 1..Len(ks) |-> Mutation(kd[i], ks[i], IF kd[i] = "Put" THEN value ELSE None)] :
        kd \in [1..Len(ks) -> Kinds]}
Range(s) == {s[i] : i \in 1..Len(s)}

NoHist == [prewritten |-> {}, committed |-> {}, rolledback |-> {}]

\* A client of the increment tests at the start of a transaction.
IncNew == [pc |-> "start", start_ts |-> 0, numbers |-> <<>>, commit_ts |-> 0]

InstallEngine(E) ==
    /\ lockCF' = E.lock
    /\ writeCF' = E.write
    /\ defaultCF' = E.default

HistPrewrite(writes, start_ts) ==
    [hist EXCEPT !.prewritten =
        {p \in @ : ~(p.start_ts = start_ts /\ \E i \in 1..Len(writes) : writes[i].key = p.key)}
        \cup {[key |-> writes[i].key, start_ts |-> start_ts, kind |-> writes[i].kind,
               value |-> writes[i].value] : i \in 1..Len(writes)}]

HistCommit(keys, start_ts, commit_ts) ==
    [hist EXCEPT !.committed = @ \cup
        {[key |-> p.key, start_ts |-> start_ts, commit_ts |-> commit_ts,
          kind |-> p.kind, value |-> p.value] :
            p \in {q \in hist.prewritten : q.start_ts = start_ts /\ q.key \in Range(keys)
                      /\ ~\E c \in hist.committed :
                            c.key = q.key /\ c.start_ts = start_ts}}]

HistRollback(keys, start_ts) ==
    [hist EXCEPT !.rolledback = @ \cup {[key |-> k, start_ts |-> start_ts] : k \in Range(keys)}]

Get(key, ts) ==
    LET r == TxnStoreGet(Engine, key, ts)
    IN /\ InstallEngine(r.E)
       /\ UNCHANGED <<raft, heard, run, group, clients, punch, rocks, seen, oracle, starts, commitOf, hist>>

Prewrite(writes, primary, start_ts, ttl) ==
    LET r == TxnStorePrewrite(Engine, writes, primary, start_ts, ttl)
    IN /\ InstallEngine(r.E)
       /\ hist' = IF r.res.err = "Ok" THEN HistPrewrite(writes, start_ts) ELSE hist
       /\ UNCHANGED <<raft, heard, run, group, clients, punch, rocks, seen, oracle, starts, commitOf>>

Commit(keys, start_ts, commit_ts) ==
    LET r == TxnStoreCommit(Engine, keys, start_ts, commit_ts)
    IN /\ InstallEngine(r.E)
       /\ hist' = IF r.res.err = "Ok" THEN HistCommit(keys, start_ts, commit_ts) ELSE hist
       /\ UNCHANGED <<raft, heard, run, group, clients, punch, rocks, seen, oracle, starts, commitOf>>

Rollback(keys, start_ts) ==
    LET r == TxnStoreRollback(Engine, keys, start_ts)
    IN /\ InstallEngine(r.E)
       /\ hist' = IF r.res.err = "Ok" THEN HistRollback(keys, start_ts) ELSE hist
       /\ UNCHANGED <<raft, heard, run, group, clients, punch, rocks, seen, oracle, starts, commitOf>>

(***************************************************************************)
(* SpecTxn: the clients take their timestamps from a strictly increasing   *)
(* oracle (tests::Oracle): a start_ts when a transaction begins, its        *)
(* commit_ts later.                                                         *)
(***************************************************************************)
InitTxn ==
    /\ InitRaft
    /\ lockCF = {}
    /\ writeCF = {}
    /\ defaultCF = {}
    /\ oracle = 0
    /\ starts = {}
    /\ commitOf = [t \in Ts |-> None]
    /\ hist = NoHist
    /\ clients = [c \in Clients |-> IncNew]
    /\ punch = <<>>
    /\ rocks = RocksNew
    /\ seen = <<>>
    /\ heard = {}
    /\ run = ScanIdle
    /\ group = GroupNew

\* Oracle::get_ts for a new transaction.
Begin ==
    /\ oracle < MaxTs
    /\ Cardinality(starts) < MaxTxns
    /\ oracle' = oracle + 1
    /\ starts' = starts \cup {oracle + 1}
    /\ UNCHANGED <<raft, heard, run, group, clients, punch, rocks, seen, lockCF, writeCF, defaultCF, commitOf, hist>>

\* Oracle::get_ts for the commit of transaction s.
GetCommitTs(s) ==
    /\ oracle < MaxTs
    /\ s \in starts
    /\ commitOf[s] = None
    /\ oracle' = oracle + 1
    /\ commitOf' = [commitOf EXCEPT ![s] = oracle + 1]
    /\ UNCHANGED <<raft, heard, run, group, clients, punch, rocks, seen, lockCF, writeCF, defaultCF, starts, hist>>

ClientGet == \E key \in Keys, ts \in Ts : Get(key, ts)

ClientPrewrite ==
    \E s \in starts, ks \in KeyLists, ttl \in 0..MaxTtl :
        \E writes \in MutationLists(ks, s) :
            Prewrite(writes, Head(ks), s, ttl)

ClientCommit ==
    \E s \in starts, ks \in KeyLists :
        /\ commitOf[s] # None
        /\ Commit(ks, s, commitOf[s])

ClientRollback == \E s \in starts, ks \in KeyLists : Rollback(ks, s)

NextTxn ==
    \/ Begin
    \/ \E s \in Ts : GetCommitTs(s)
    \/ ClientGet
    \/ ClientPrewrite
    \/ ClientCommit
    \/ ClientRollback

SpecTxn == InitTxn /\ [][NextTxn]_vars

(***************************************************************************)
(* SpecTxnAny: the callers pass any timestamps: a transaction starts at any *)
(* start_ts not in use and commits at any commit_ts, also one that is not   *)
(* above its start_ts.                                                      *)
(***************************************************************************)
BeginAny ==
    \E s \in Ts \ starts :
        /\ Cardinality(starts) < MaxAnyTxns
        /\ starts' = starts \cup {s}
        /\ UNCHANGED <<raft, heard, run, group, clients, punch, rocks, seen, lockCF, writeCF, defaultCF, oracle,
                       commitOf, hist>>

AnyCommitTs ==
    \E s \in starts, c \in Ts :
        /\ commitOf[s] = None
        /\ commitOf' = [commitOf EXCEPT ![s] = c]
        /\ UNCHANGED <<raft, heard, run, group, clients, punch, rocks, seen, lockCF, writeCF, defaultCF, oracle,
                       starts, hist>>

NextTxnAny ==
    \/ BeginAny
    \/ AnyCommitTs
    \/ ClientGet
    \/ ClientPrewrite
    \/ ClientCommit
    \/ ClientRollback

SpecTxnAny == InitTxn /\ [][NextTxnAny]_vars

(***************************************************************************)
(* SpecTxnOrdered: the clients follow the order of tests::inc: a            *)
(* transaction takes its start_ts, prewrites, takes its commit_ts once a     *)
(* prewrite has succeeded, and prewrites no more after that.                 *)
(***************************************************************************)
GetCommitTsAfter ==
    \E s \in starts :
        /\ \E p \in hist.prewritten : p.start_ts = s
        /\ GetCommitTs(s)

ClientPrewriteBefore ==
    \E s \in starts, ks \in KeyLists :
        \E writes \in MutationLists(ks, s) :
            /\ commitOf[s] = None
            /\ Prewrite(writes, Head(ks), s, 0)

\* A scan that returned no error item.
ScanSucceeded(items) == \A i \in 1..Len(items) : items[i].res.err = "Ok"

\* What a reader keeps of a read that failed.
Failed == [err |-> "Failed"]

\* The results of the reads at ts that succeed: get of every key and scan from
\* every place with every limit.
ReadsAt(ts) ==
    [gets |-> [key \in Keys |->
                  LET r == TxnStoreGet(Engine, key, ts).res
                  IN IF r.err = "Ok" THEN r ELSE Failed],
     scans |-> [pl \in (1..push_zero(NumKeys)) \X (0..NumKeys) |->
                   LET items == TxnStoreScan(Engine, pl[1], pl[2], ts)
                   IN IF ScanSucceeded(items) THEN items ELSE <<>>]]

\* A reader reads at ts, a timestamp the oracle has given out; seen keeps what the
\* reader of one moment was answered (as check_v10 .. check_v40 of
\* tests::test_txn_store_scan do, to compare later).  A read leaves the engine as
\* it is.
ClientRead ==
    \E ts \in Ts :
        /\ seen = <<>>
        /\ ts <= oracle
        /\ \E key \in Keys : ReadsAt(ts).gets[key] # Failed
        /\ seen' = <<ts, ReadsAt(ts)>>
        /\ UNCHANGED <<raft, heard, run, group, clients, punch, rocks, lockCF, writeCF, defaultCF, oracle,
                       starts, commitOf, hist>>

NextTxnOrdered ==
    \/ Begin
    \/ GetCommitTsAfter
    \/ ClientRead
    \/ ClientPrewriteBefore
    \/ ClientCommit
    \/ ClientRollback

SpecTxnOrdered == InitTxn /\ [][NextTxnOrdered]_vars

(***************************************************************************)
(* SpecInc and SpecIncMulti: the clients of tests::test_isolation_inc and   *)
(* tests::test_isolation_multi_inc.  Each client runs the transaction of    *)
(* inc (n = 1 key) or inc_multi (n keys) again and again; every call of the  *)
(* store and of the oracle is one step, and any error starts the            *)
(* transaction anew.  The oracle stops at MaxIncTs, far below the            *)
(* INC_MAX_RETRY attempts after which inc gives up.  punch holds, for every  *)
(* transaction that returned success, the numbers it had read.              *)
(***************************************************************************)
\* Mutant: an oracle that hands out the same timestamp again.
get_ts_again(o) == Max(o, 1)

\* Oracle::get_ts
get_ts(o) == o + 1

\* next.to_string().into_bytes(): the decimal digits, as one number in base 256.
RECURSIVE to_string(_)
to_string(n) ==
    IF n < 10 THEN 48 + n ELSE to_string(n \div 10) * 256 + 48 + (n % 10)

\* String::from_utf8(x).unwrap().parse().unwrap()
RECURSIVE parse(_)
parse(x) ==
    IF x < 256 THEN x - 48 ELSE parse(x \div 256) * 10 + ((x % 256) - 48)

\* keys: format_key(0), ..., format_key(n - 1)
IncKeys(n) == [i \in 1..n |-> i]

IncStep(c, st, E, p) ==
    /\ clients' = [clients EXCEPT ![c] = st]
    /\ InstallEngine(E)
    /\ punch' = p
    /\ UNCHANGED <<raft, heard, run, group, rocks, seen, starts, commitOf, hist>>

\* let start_ts = oracle.get_ts();
IncStart(c) ==
    /\ clients[c].pc = "start"
    /\ oracle < MaxIncTs
    /\ oracle' = get_ts(oracle)
    /\ IncStep(c, [IncNew EXCEPT !.pc = "get", !.start_ts = get_ts(oracle)], Engine, punch)

\* store.get(key, start_ts), for the next key of the transaction
IncGet(c, n) ==
    LET st == clients[c]
        r == TxnStoreGet(Engine, IncKeys(n)[Len(st.numbers) + 1], st.start_ts)
        number == IF r.res.val = None THEN 0 ELSE parse(r.res.val)
    IN /\ st.pc = "get"
       /\ UNCHANGED oracle
       /\ IF r.res.err # "Ok" THEN IncStep(c, IncNew, r.E, punch)
          ELSE IncStep(c, [st EXCEPT !.numbers = Append(@, number),
                                     !.pc = IF Len(st.numbers) + 1 = n
                                            THEN "prewrite" ELSE "get"],
                       r.E, punch)

\* store.prewrite(mutations, format_key(0), start_ts)
IncPrewrite(c, n) ==
    \E ttl \in 0..MaxTtl :
        LET st == clients[c]
            mutations == [i \in 1..n |->
                             Mutation("Put", IncKeys(n)[i], to_string(st.numbers[i] + 1))]
            r == TxnStorePrewrite(Engine, mutations, IncKeys(n)[1], st.start_ts, ttl)
        IN /\ st.pc = "prewrite"
           /\ UNCHANGED oracle
           /\ IF r.res.err # "Ok" THEN IncStep(c, IncNew, r.E, punch)
              ELSE IncStep(c, [st EXCEPT !.pc = "commit_ts"], r.E, punch)

\* let commit_ts = oracle.get_ts();
IncCommitTs(c) ==
    /\ clients[c].pc = "commit_ts"
    /\ oracle < MaxIncTs
    /\ oracle' = get_ts(oracle)
    /\ IncStep(c, [clients[c] EXCEPT !.pc = "commit", !.commit_ts = get_ts(oracle)],
               Engine, punch)

\* store.commit(keys, start_ts, commit_ts), then the return of inc
IncCommit(c, n) ==
    LET st == clients[c]
        r == TxnStoreCommit(Engine, IncKeys(n), st.start_ts, st.commit_ts)
    IN /\ st.pc = "commit"
       /\ UNCHANGED oracle
       /\ IF r.res.err # "Ok" THEN IncStep(c, IncNew, r.E, punch)
          ELSE IncStep(c, IncNew, r.E, Append(punch, st.numbers))

NextInc ==
    \E c \in Clients :
        \/ IncStart(c)
        \/ IncGet(c, 1)
        \/ IncPrewrite(c, 1)
        \/ IncCommitTs(c)
        \/ IncCommit(c, 1)

SpecInc == InitTxn /\ [][NextInc]_vars

NextIncMulti ==
    \E c \in Clients :
        \/ IncStart(c)
        \/ IncGet(c, NumKeys)
        \/ IncPrewrite(c, NumKeys)
        \/ IncCommitTs(c)
        \/ IncCommit(c, NumKeys)

SpecIncMulti == InitTxn /\ [][NextIncMulti]_vars

SpecEngine == InitTxn /\ [][NextEngine]_vars

(***************************************************************************)
(* Spec: the calls on the Raft struct of one peer, the store left alone.    *)
(***************************************************************************)
Init == InitTxn

Spec == Init /\ [][Next]_vars
SpecSnap == Init /\ [][NextSnap]_vars
SpecConf == Init /\ [][NextConf]_vars
SpecLead == Init /\ [][NextLead]_vars
SpecSize == Init /\ [][NextSize]_vars

\* The group that does not stop: its schedule makes ticks and delivery fair.
SpecGroup == Init /\ [][NextGroup]_vars /\ WF_vars(GroupRun)

\* Config.check_quorum is chosen when the peer is constructed.
InitCheck ==
    /\ \E cq \in BOOLEAN : raft = [RaftNew EXCEPT !.check_quorum = cq]
    /\ lockCF = {}
    /\ writeCF = {}
    /\ defaultCF = {}
    /\ oracle = 0
    /\ starts = {}
    /\ commitOf = [t \in Ts |-> None]
    /\ hist = NoHist
    /\ clients = [c \in Clients |-> IncNew]
    /\ punch = <<>>
    /\ rocks = RocksNew
    /\ seen = <<>>
    /\ heard = {}
    /\ run = ScanIdle
    /\ group = GroupNew

SpecCheck == InitCheck /\ [][NextCheck]_vars

(***************************************************************************)
(* Claims on the Raft state machine                                        *)
(***************************************************************************)
\* The peers of the progress map whose matched index is at least n.
MatchedAtLeast(r, n) == {p \in DOMAIN r.prs : r.prs[p].matched >= n}

\* C2: a leader advances its committed index to N only when a quorum of the peers
\* of its progress map have matched >= N and the entry at N carries the current
\* term of the leader: an entry of an earlier term is committed only together with
\* a later entry of the current term.
C2_LeaderCommit ==
    [][(/\ raft'.state = "Leader"
        /\ ~raft'.panicked
        /\ raft'.raft_log.committed > raft.raft_log.committed)
       => LET N == raft'.raft_log.committed
          IN /\ Cardinality(MatchedAtLeast(raft', N)) >= quorum(raft')
             /\ log_term(raft', N) = raft'.hs.term]_vars

\* The leader of term 2 has committed its own entry at N on a quorum that is not
\* every peer, and with it the entry of term 1 below, which it has inherited.
C2_Witness ==
    LET N == raft.raft_log.committed
    IN /\ raft.state = "Leader"
       /\ N >= 2
       /\ log_term(raft, N) = raft.hs.term
       /\ log_term(raft, N - 1) < raft.hs.term
       /\ Cardinality(MatchedAtLeast(raft, N)) = quorum(raft)
       /\ quorum(raft) < Cardinality(DOMAIN raft.prs)

\* The conf-change entries of the log above the committed index.
UncommittedConfs(r) ==
    {i \in (r.raft_log.committed + 1)..last_index(r) :
        r.raft_log.ents[i].entry_type = "EntryConfChange"}

\* C4: the log of the peer holds at most one conf-change entry above its committed
\* index (a leader appends a proposed conf change as an empty normal entry while an
\* earlier one is uncommitted), and so the check of become_leader for a double
\* uncommitted conf change never fails.
C4_OneUncommittedConf ==
    /\ Cardinality(UncommittedConfs(raft)) <= 1
    /\ raft.panic_at # "unexpected double uncommitted config entry"

(***************************************************************************)
(* Claims on the transaction store                                          *)
(***************************************************************************)
Locked(key) == CfHas(lockCF, key)
LockOf(key) == CfGet(lockCF, key)
\* The key holds a lock that blocks a read at ts.
Blocked(key, ts) == Locked(key) /\ LockOf(key).start_ts <= ts

\* The committed writes of key visible at ts, from the history of the calls.
HistWrites(key, ts) == {c \in hist.committed : c.key = key /\ c.commit_ts <= ts}
HistValue(key, ts) ==
    IF HistWrites(key, ts) = {} THEN None
    ELSE LET w == CHOOSE w \in HistWrites(key, ts) :
                      \A x \in HistWrites(key, ts) : x.commit_ts <= w.commit_ts
         IN IF w.kind = "Put" THEN w.value ELSE None

C6_GetLocked ==
    \A key \in Keys, ts \in Ts :
        LET r == TxnStoreGet(Engine, key, ts)
        IN /\ Blocked(key, ts) =>
                /\ r.res.err = "KeyIsLocked"
                /\ r.res.primary = LockOf(key).primary
                /\ r.res.ts = LockOf(key).start_ts
           /\ ~Blocked(key, ts) => r.res.err = "Ok"
           /\ r.E = Engine

\* A key locked at a start_ts above 1 by a lock with a non-zero ttl: the read at the
\* lock's start_ts is refused, the read just below it is served.
C6_Witness ==
    \E key \in Keys :
        /\ Locked(key) /\ LockOf(key).start_ts > 1 /\ LockOf(key).ttl > 0
        /\ TxnStoreGet(Engine, key, LockOf(key).start_ts).res.err = "KeyIsLocked"
        /\ TxnStoreGet(Engine, key, LockOf(key).start_ts - 1).res.err = "Ok"

\* The conditions of a prewrite at start_ts on a key.
ForeignLock(key, start_ts) == Locked(key) /\ LockOf(key).start_ts # start_ts
CommittedAbove(key, start_ts) ==
    \E c \in hist.committed : c.key = key /\ c.commit_ts >= start_ts
RolledBackAbove(key, start_ts) ==
    \E e \in writeCF : e.k[1] = key /\ e.k[2] >= start_ts /\ e.v.kind = "Rollback"

Holders(key) ==
    {p.start_ts : p \in {q \in hist.prewritten :
        /\ q.key = key
        /\ ~\E c \in hist.committed : c.key = key /\ c.start_ts = q.start_ts
        /\ ~\E b \in hist.rolledback : b.key = key /\ b.start_ts = q.start_ts}}

C9_CommitOrder ==
    \A e \in writeCF : e.v.kind # "Rollback" => e.v.start_ts < e.k[2]

\* C10: commit succeeds only if every key holds the lock of start_ts or, that lock
\* being absent, was already committed by start_ts (a repeated commit, which
\* leaves the key as it is); otherwise it fails with TxnLockNotFound and stages
\* nothing.  On success every key that held the lock has the write record
\* {start_ts, kind} at commit_ts and no lock.
OwnLock(key, start_ts) == Locked(key) /\ LockOf(key).start_ts = start_ts
CommittedBy(key, start_ts) ==
    \E c \in hist.committed : c.key = key /\ c.start_ts = start_ts
C10_Commit ==
    \A s \in starts, ks \in KeyLists, c \in Ts :
        LET r == TxnStoreCommit(Engine, ks, s, c)
            ready == \A k \in Range(ks) : OwnLock(k, s) \/ CommittedBy(k, s)
        IN /\ r.res.err = "Ok" <=> ready
           /\ ~ready => r.res.err = "TxnLockNotFound" /\ r.E = Engine
           /\ ready =>
                \A k \in Range(ks) :
                    IF OwnLock(k, s)
                      THEN /\ CfGet(r.E.write, <<k, c>>) =
                                [start_ts |-> s, kind |-> LockOf(k).kind]
                           /\ ~CfHas(r.E.lock, k)
                      ELSE /\ {e \in r.E.write : e.k[1] = k} = {e \in writeCF : e.k[1] = k}
                           /\ {e \in r.E.lock : e.k = k} = {e \in lockCF : e.k = k}

\* A two-key commit of a transaction that holds the lock of the first key only (the
\* second was neither prewritten nor committed by it) fails and stages nothing,
\* and the commit of the first key alone succeeds.
C10_Witness ==
    \E s \in starts, ks \in KeyLists :
        /\ Len(ks) = 2 /\ commitOf[s] # None
        /\ OwnLock(ks[1], s) /\ ~OwnLock(ks[2], s) /\ ~CommittedBy(ks[2], s)
        /\ TxnStoreCommit(Engine, ks, s, commitOf[s]).res.err = "TxnLockNotFound"
        /\ TxnStoreCommit(Engine, <<ks[1]>>, s, commitOf[s]).res.err = "Ok"
IncIdle == \A c \in Clients : clients[c].pc = "start"

\* C12: when concurrent clients run the increment transaction of one key with
\* timestamps of the oracle, retrying on every error, the k-th transaction that
\* committed has read k - 1: the values read by the n committed transactions are
\* exactly 0 .. n-1 and no two of them have read the same value.
C12_NoLostUpdate ==
    /\ \A i \in 1..Len(punch) : punch[i][1] = i - 1
    /\ {punch[i][1] : i \in 1..Len(punch)} = 0..(Len(punch) - 1)

\* Two transactions have committed and every client is between two transactions,
\* after an attempt that was refused and started anew (it took a fifth timestamp):
\* the counter is 2.
C12_Witness ==
    /\ Len(punch) = 2
    /\ IncIdle
    /\ oracle >= 5
    /\ TxnStoreGet(Engine, 1, MaxIncTs).res.val = to_string(2)

\* C13: when concurrent clients increment all the keys of a set in one transaction
\* each, then whenever every client has finished its transactions every key of
\* the set is free and holds the same counter, the number of the transactions
\* that committed; and at any moment the reads of the keys at one timestamp that
\* succeed return the same counter (the writes of a transaction are visible on all
\* of its keys or on none).
C13_MultiInc ==
    /\ IncIdle =>
          \A key \in Keys :
              LET r == TxnStoreGet(Engine, key, MaxIncTs).res
              IN /\ r.err = "Ok"
                 /\ (IF r.val = None THEN 0 ELSE parse(r.val)) = Len(punch)
    /\ \A ts \in 1..MaxIncTs, k1, k2 \in Keys :
          LET r1 == TxnStoreGet(Engine, k1, ts).res
              r2 == TxnStoreGet(Engine, k2, ts).res
          IN (r1.err = "Ok" /\ r2.err = "Ok") => r1.val = r2.val

\* Two transactions over the keys have committed, one attempt was refused and
\* started anew (it took a fifth timestamp), and every client has finished.
C13_Witness ==
    /\ IncIdle
    /\ Len(punch) = 2
    /\ oracle >= 5
    /\ \A key \in Keys : TxnStoreGet(Engine, key, MaxIncTs).res.val = to_string(2)
\* The places a scan can start from: below every key, at a key, just above a key.
Places == 1..push_zero(NumKeys)
\* The item of key in a scan at ts, <<>> when the key has no visible value.
ScanItem(key, ts) ==
    LET r == TxnStoreGet(Engine, key, ts).res
    IN IF r.err # "Ok" THEN <<ScanErr(r)>>
       ELSE IF r.val # None THEN <<ScanOk(key, r.val)>>
       ELSE <<>>
\* The items of the keys from key on, in ascending order of the keys.
RECURSIVE ScanItems(_, _)
ScanItems(key, ts) ==
    IF key > NumKeys THEN <<>> ELSE ScanItem(key, ts) \o ScanItems(key + 1, ts)
\* The first user key at or after a place.
KeyAt(place) == (place + 1) \div 2

\* C14: scan(start_key, limit, ts) returns, in ascending order of the keys, the
\* first limit items of the user keys >= start_key for which get(key, ts) yields a
\* value (the pair) or an error (an error item); a key whose state at ts is deleted
\* or absent gives no item and does not count; limit = 0 gives the empty list.
C14_Scan ==
    \A place \in Places, limit \in 0..(NumKeys + 1), ts \in Ts :
        LET all == ScanItems(KeyAt(place), ts)
            got == TxnStoreScan(Engine, place, limit, ts)
        IN /\ got = SubSeq(all, 1, Min(limit, Len(all)))
           /\ limit = 0 => got = <<>>
           /\ \A i, j \in 1..Len(got) :
                 (i < j /\ got[i].key # None /\ got[j].key # None) => got[i].key < got[j].key

\* The first key has an entry and no value visible at some ts (it is deleted or not
\* yet committed there), the second key has one: the scan of limit 1 from the start
\* passes over the first key and returns the second; and a scan of a locked key
\* returns an error item.
C14_Witness ==
    /\ \E ts \in Ts :
          /\ 1 \in UserKeys(Engine)
          /\ TxnStoreGet(Engine, 1, ts).res = Ok(None)
          /\ Len(TxnStoreScan(Engine, 1, 1, ts)) = 1
          /\ TxnStoreScan(Engine, 1, 1, ts)[1].key = NumKeys
    /\ \E ts \in Ts : \E i \in 1..Len(TxnStoreScan(Engine, 1, NumKeys, ts)) :
          TxnStoreScan(Engine, 1, NumKeys, ts)[i].res.err = "KeyIsLocked"
SeekKeys == 1..(NumKeys + 1)
SameReads(get_value(_), it, m) ==
    /\ \A key \in Keys : get_value(key) = m[key]
    /\ \A key \in SeekKeys : seek(it, key) = seek(MapIter(m), key)
    /\ \A start_key \in SeekKeys, end_key \in SeekKeys, limit \in SeekKeys :
          scan(it, start_key, end_key, limit) = scan(MapIter(m), start_key, end_key, limit)

\* C16: while a Snapshot lives, its get_value, seek and scan answer with the data
\* of the engine as of the creation of the snapshot, whatever was put, overwritten
\* or deleted in the engine since; the same reads on the engine itself answer with
\* the data as of now.
C16_Snapshot ==
    /\ rocks.snap.live =>
          SameReads(LAMBDA key : SnapshotGetValue(rocks, key),
                    SnapshotNewIterator(rocks), rocks.at)
    /\ SameReads(LAMBDA key : DbGetValue(rocks, key), DbNewIterator(rocks), rocks.cur)

\* A snapshot lives; since its creation a key it holds was deleted and a key it
\* does not hold was put: the snapshot still answers with the first and not the
\* second, the engine with the second and not the first.
C16_Witness ==
    /\ rocks.snap.live
    /\ \E k1 \in Keys, k2 \in Keys :
          /\ rocks.at[k1] # None /\ rocks.cur[k1] = None
          /\ rocks.at[k2] = None /\ rocks.cur[k2] # None
          /\ SnapshotGetValue(rocks, k1) # None /\ DbGetValue(rocks, k1) = None
          /\ seek(SnapshotNewIterator(rocks), 1) = <<(<<k1, rocks.at[k1]>>)>>
          /\ seek(DbNewIterator(rocks), 1) = <<(<<k2, rocks.cur[k2]>>)>>
          /\ Len(scan(SnapshotNewIterator(rocks), 1, NumKeys + 1, NumKeys + 1)) = 1
\* The MsgRequestVote messages a peer can be sent: from another peer, carrying
\* the last index and the last term of the log of the sender.
VoteRequests(term) ==
    {[Received("MsgRequestVote", from, term) EXCEPT !.index = idx, !.log_term = lt] :
        from \in Others, idx \in 0..MaxLog, lt \in 0..MaxTerm}

\* The reply to a MsgRequestVote of from, as the caller finds it after the call.
VoteResponse(r, from, reject) ==
    [new_message(from, "MsgRequestVoteResponse", INVALID_ID) EXCEPT
        !.from = r.id, !.term = r.hs.term, !.reject = reject]

\* C17: a follower that is stepped a MsgRequestVote of its current term replies
\* with a granting MsgRequestVoteResponse, records vote = the requester and resets
\* election_elapsed, if its vote is none or the requester and the log of the
\* requester is up to date; otherwise it replies with reject = true and keeps its
\* vote.
C17_Vote ==
    (~raft.panicked /\ raft.state = "Follower") =>
        \A m \in VoteRequests(raft.hs.term) :
            LET r == step(Taken, m)
                grant == /\ raft.hs.vote = INVALID_ID \/ raft.hs.vote = m.from
                         /\ \/ m.log_term > last_term(raft)
                            \/ m.log_term = last_term(raft) /\ m.index >= last_index(raft)
            IN IF grant
               THEN /\ r.msgs = <<VoteResponse(r, m.from, FALSE)>>
                    /\ r.hs.vote = m.from
                    /\ r.election_elapsed = 0
               ELSE /\ r.msgs = <<VoteResponse(r, m.from, TRUE)>>
                    /\ r.hs.vote = raft.hs.vote
\* The messages of term a peer can be sent by another peer, of every type step
\* tells apart but MsgHup, which is local and carries no term.
SentTypes ==
    {"MsgPropose", "MsgAppend", "MsgAppendResponse", "MsgHeartbeat",
     "MsgHeartbeatResponse", "MsgRequestVote", "MsgRequestVoteResponse"}
Sent(term) ==
    {[Received(t, from, term) EXCEPT !.index = idx, !.log_term = idx, !.commit = c,
                                     !.reject = rej] :
        t \in SentTypes, from \in Others, idx \in 0..1, c \in 0..1, rej \in BOOLEAN}

\* The end of step: hs.commit is set to the committed index of the log.
SetCommit(r) == IF r.panicked THEN r ELSE [r EXCEPT !.hs.commit = r.raft_log.committed]

\* C18, the call: whatever the role of the peer, step on a message of a term
\* greater than its own (any type but MsgHup) is become_follower at the term of
\* the message, with the vote cleared and the sender as the leader, or INVALID_ID
\* as the leader when the message is a MsgRequestVote, followed by the handling of
\* the message as a follower.
C18_Step ==
    ~raft.panicked =>
        \A term \in (raft.hs.term + 1)..MaxTerm : \A m \in Sent(term) :
            LET lead == IF m.msg_type = "MsgRequestVote" THEN INVALID_ID ELSE m.from
                f == [Taken EXCEPT !.state = "Follower", !.hs.term = m.term,
                                   !.hs.vote = INVALID_ID, !.lead = lead,
                                   !.election_elapsed = 0, !.heartbeat_elapsed = 0,
                                   !.votes = <<>>, !.pending_conf = FALSE,
                                   !.prs = become_follower(Taken, m.term, lead).prs]
            IN /\ become_follower(Taken, m.term, lead) = f
               /\ step(Taken, m) = SetCommit(step_follower(f, m))

\* C18, the term: no call makes the term of a peer lower.
C18_TermGrows == ~raft'.panicked => raft'.hs.term >= raft.hs.term

\* C18: a message of a higher term makes the peer, whatever its role, a follower
\* at the term of the message, with no vote and with the sender as the leader
\* (INVALID_ID for a MsgRequestVote), before the message is handled as a follower
\* handles it; and the term of a peer never decreases.
C18_HigherTerm == [](C18_Step) /\ [][C18_TermGrows]_vars

\* A peer that was leader at term 1 (its log holds the entry of its election) has
\* been stepped a MsgRequestVote of term 2: it is a follower at term 2 without
\* leader, has voted for the sender and replied with the grant.
C18_Witness ==
    /\ ~raft.panicked
    /\ raft.state = "Follower"
    /\ raft.hs.term = 2
    /\ Len(raft.raft_log.ents) >= 1
    /\ raft.lead = INVALID_ID
    /\ raft.hs.vote \in Others
    /\ raft.msgs = <<VoteResponse(raft, raft.hs.vote, FALSE)>>

\* C19: step on a message of a non-zero term lower than the term of the peer
\* leaves the whole struct as it was (term, vote, role, leader, log, committed
\* index, progress of every peer, elapsed counters, votes) and sends no message.
C19_LowerTerm ==
    ~raft.panicked =>
        \A term \in 1..(raft.hs.term - 1) : \A m \in Sent(term) :
            /\ step(Taken, m) = Taken
            /\ step(Taken, m).msgs = <<>>

\* A leader of term 2 with an entry in its log: the messages of term 1 it is
\* stepped, among them the MsgAppendResponse its follower of term 1 still sends,
\* are dropped.
C19_Witness ==
    /\ ~raft.panicked
    /\ raft.state = "Leader"
    /\ raft.hs.term = 2
    /\ Len(raft.raft_log.ents) >= 1
    /\ \E m \in Sent(1) : m.msg_type = "MsgAppendResponse" /\ step(Taken, m) = Taken
\* The MsgRequestVote a candidate sends to the peer to, as the caller finds it.
VoteRequest(r, to) ==
    [new_message(to, "MsgRequestVote", INVALID_ID) EXCEPT
        !.from = r.id, !.term = r.hs.term,
        !.index = last_index(r), !.log_term = last_term(r)]

\* C20: a Follower or Candidate of a group of several voters that is stepped
\* MsgHup becomes Candidate with its term increased by exactly one and its vote
\* given to itself, counts its own grant, and sends a MsgRequestVote carrying its
\* last log index and last log term to every other peer of its configuration.
C20_Campaign ==
    (~raft.panicked /\ raft.state # "Leader" /\ quorum(raft) > 1) =>
        LET r == step(Taken, new_message(INVALID_ID, "MsgHup", SelfId))
        IN /\ ~r.panicked
           /\ r.state = "Candidate"
           /\ r.hs.term = raft.hs.term + 1
           /\ r.hs.vote = r.id
           /\ r.votes = [id \in {r.id} |-> TRUE]
           /\ Len(r.msgs) = Cardinality(DOMAIN r.prs \ {r.id})
           /\ \A to \in DOMAIN r.prs \ {r.id} :
                 \E i \in 1..Len(r.msgs) : r.msgs[i] = VoteRequest(r, to)
\* The MsgSnapshot messages of term a peer can be sent.
SnapshotsSent(term) ==
    {[Received("MsgSnapshot", from, term) EXCEPT !.snapshot = sn] :
        from \in Others, sn \in Snapshots}

\* The terms of the messages a peer at term hands to its handlers: 0 and the
\* terms above its own.
HandledTerms(term) == {0} \cup ((term + 1)..MaxTerm)

\* The reply to a MsgSnapshot of from, as the caller finds it after the call.
AppendResponse(r, from, index) ==
    [new_message(from, "MsgAppendResponse", INVALID_ID) EXCEPT
        !.from = r.id, !.term = r.hs.term, !.index = index]

\* What C21 says of a follower stepped the MsgSnapshot m, with accepts telling
\* whether the snapshot is accepted: accepted, the configuration is the nodes of
\* the snapshot, the committed index its index, and the answer carries the last
\* index; not accepted, the entries and the configuration are as before and
\* the answer carries the committed index.
SnapshotHandled(m, accepts) ==
    LET r == step(Taken, m)
        sn == m.snapshot
    IN /\ ~r.panicked
       /\ IF accepts
          THEN /\ DOMAIN r.prs = sn.nodes
               /\ r.raft_log.committed = sn.index
               /\ r.msgs = <<AppendResponse(r, m.from, last_index(r))>>
          ELSE /\ r.raft_log.ents = raft.raft_log.ents
               /\ r.raft_log.snap = raft.raft_log.snap
               /\ DOMAIN r.prs = DOMAIN raft.prs
               /\ r.msgs = <<AppendResponse(r, m.from, r.raft_log.committed)>>

\* C21 as stated: a follower handling MsgSnapshot accepts the snapshot if and only
\* if snapshot.index > its committed index; accepted, its configuration becomes
\* the nodes of the snapshot and its committed index snapshot.index; otherwise
\* its log and configuration are unchanged; it answers with a MsgAppendResponse
\* carrying its last_index after acceptance, its committed index otherwise.
C21_SnapshotAbove ==
    (~raft.panicked /\ raft.state = "Follower") =>
        \A term \in HandledTerms(raft.hs.term) : \A m \in SnapshotsSent(term) :
            SnapshotHandled(m, m.snapshot.index > raft.raft_log.committed)

\* C21, amended: a follower handling MsgSnapshot accepts the snapshot if and only
\* if snapshot.index >= its committed index and its log does not hold the term
\* of the snapshot at snapshot.index.  Accepted, its configuration becomes the
\* nodes of the snapshot, its log the snapshot alone and its committed index
\* snapshot.index.  Not accepted, its entries and configuration are unchanged,
\* and its committed index is raised to snapshot.index when the log holds the
\* term of the snapshot there.  It answers with a MsgAppendResponse carrying its
\* last_index after acceptance, its committed index otherwise.
C21_Snapshot ==
    (~raft.panicked /\ raft.state = "Follower") =>
        \A term \in HandledTerms(raft.hs.term) : \A m \in SnapshotsSent(term) :
            LET sn == m.snapshot
                held == log_term(raft, sn.index) = sn.term
                r == step(Taken, m)
            IN /\ SnapshotHandled(m, sn.index >= raft.raft_log.committed /\ ~held)
               /\ (sn.index >= raft.raft_log.committed /\ ~held) =>
                     /\ r.raft_log.ents = <<>>
                     /\ r.raft_log.snap = sn
               /\ ~(sn.index >= raft.raft_log.committed /\ ~held) =>
                     r.raft_log.committed =
                         IF held /\ sn.index > raft.raft_log.committed
                         THEN sn.index ELSE raft.raft_log.committed

\* A follower has accepted a snapshot of a configuration without itself and
\* answered with its last index, the index of the snapshot; its log had entries
\* before (its own progress still tells their last index).
C21_Witness ==
    /\ ~raft.panicked
    /\ raft.state = "Follower"
    /\ raft.raft_log.snap.index > 0
    /\ raft.raft_log.ents = <<>>
    /\ raft.raft_log.committed = raft.raft_log.snap.index
    /\ DOMAIN raft.prs = raft.raft_log.snap.nodes
    /\ \E n \in DOMAIN raft.prs : raft.prs[n].next_idx > 1
    /\ \E from \in Others :
          raft.msgs = <<AppendResponse(raft, from, raft.raft_log.snap.index)>>
\* C22: after add_node(id), remove_node(id) or reset_pending_conf() the flag
\* pending_conf of the peer is false, for every id, an id already in the
\* configuration included.
C22_PendingConfCleared ==
    ~raft.panicked =>
        /\ ~reset_pending_conf(Taken).pending_conf
        /\ \A id \in Peers :
              /\ ~add_node(Taken, id).pending_conf
              /\ ~remove_node(Taken, id).pending_conf
\* The draws of the random generator of is_election_timeout.
Draws == 0..(ElectionTick - 1)

C24_CheckQuorum ==
    (~raft.panicked /\ raft.state = "Leader") =>
        \A draw \in Draws :
            LET r == tick(Taken, draw)
                count == Cardinality({SelfId} \cup (heard \cap DOMAIN raft.prs))
            IN /\ ~r.panicked
               /\ IF Checks(raft)
                  THEN /\ \A id \in DOMAIN r.prs : ~r.prs[id].recent_active
                       /\ IF count < quorum(raft)
                          THEN /\ r.state = "Follower"
                               /\ r.hs.term = raft.hs.term
                               /\ r.lead = INVALID_ID
                               /\ r.msgs = <<>>
                          ELSE r.state = "Leader"
                  ELSE r.state = "Leader"

\* tick starts an election: it does more than count the tick.
Campaigns(r, draw) == tick(r, draw) # [r EXCEPT !.election_elapsed = @ + 1]

\* C25: a follower or candidate of its own configuration that hears nothing
\* from a leader starts an election at a tick whose number, counted from the
\* last reset of election_elapsed, lies in [E, 2E-1], E being election_tick:
\* never before the E-th tick, and at the (2E-1)-th tick at the latest, whatever
\* the random generator returns.
C25_ElectionTimeout ==
    (~raft.panicked /\ raft.state # "Leader" /\ promotable(raft)) =>
        \A draw \in Draws :
            LET n == raft.election_elapsed + 1
            IN /\ Campaigns(Taken, draw) => n >= raft.election_timeout
               /\ n >= 2 * raft.election_timeout - 1 => Campaigns(Taken, draw)

AppendsTo(r, to) == SelectSeq(r.msgs, LAMBDA m : m.msg_type = "MsgAppend" /\ m.to = to)
EntriesTo(r, to) == SelectSeq(AppendsTo(r, to), LAMBDA m : m.entries # <<>>)

\* The call is the handling of an append response of the peer, the message that
\* resumes a paused progress (maybe_update, maybe_decr_to).
ResumedBy(id) ==
    \E idx \in 0..MaxLog, rej \in BOOLEAN, hint \in 0..MaxLog :
        raft' = step(Taken, [Received("MsgAppendResponse", id, 0) EXCEPT
                                !.index = idx, !.reject = rej, !.reject_hint = hint])

\* The window of a progress in Replicate state is never over max_inflight_msgs.
C28_Window ==
    ~raft.panicked =>
        \A id \in DOMAIN raft.prs :
            raft.prs[id].state = "Replicate" => Len(raft.prs[id].ins) <= MaxInflight

\* One call on a leader, for a follower it keeps a progress of.  In Replicate
\* state every MsgAppend with entries it sends is in the window, under the index
\* of its last entry, so that the window counts the messages sent and neither
\* acknowledged nor freed.  In Probe state it sends at most one MsgAppend with
\* entries and leaves the progress paused; a progress that was paused is sent
\* one only by a call that resumed it.  In Snapshot state it sends no MsgAppend.
C28_Sends ==
    (~raft.panicked /\ ~raft'.panicked /\ raft.state = "Leader" /\ raft'.state = "Leader") =>
        \A id \in (DOMAIN raft.prs \cap DOMAIN raft'.prs) \ {SelfId} :
            LET before == raft.prs[id]
                after == raft'.prs[id]
                sent == EntriesTo(raft', id)
            IN /\ after.state = "Replicate" =>
                     /\ \A i \in 1..Len(sent) :
                           \E j \in 1..Len(after.ins) :
                               after.ins[j] = sent[i].index + Len(sent[i].entries)
                     /\ Len(sent) <= Len(after.ins)
                     /\ (before.state = "Replicate" /\ Len(before.ins) = MaxInflight
                         /\ after.ins = before.ins) => sent = <<>>
               /\ after.state = "Probe" =>
                     /\ Len(sent) <= 1
                     /\ sent # <<>> => after.paused
                     /\ (before.state = "Probe" /\ before.paused /\ sent # <<>>) =>
                           ResumedBy(id)
               /\ after.state = "Snapshot" => AppendsTo(raft', id) = <<>>

SnapshotSent ==
    /\ ~raft.panicked
    /\ raft.state = "Leader"
    /\ \E id \in DOMAIN raft.prs : raft.prs[id].state = "Snapshot"

\* C29: a leader that is handed a MsgHeartbeatResponse of a peer of its
\* configuration (of its own term, or without term) marks the peer recently
\* active and, when the peer's matched is below the leader's last index, sends
\* it an append or a snapshot in that same step, whether the peer's progress is
\* in Replicate state, its window full or not, or in Probe state, paused or not.
C29_HeartbeatResponse ==
    (~raft.panicked /\ raft.state = "Leader") =>
        \A id \in DOMAIN raft.prs \ {SelfId}, t \in {0, raft.hs.term} :
            raft.prs[id].state \in {"Probe", "Replicate"} =>
                LET r == step(Taken, Received("MsgHeartbeatResponse", id, t))
                IN /\ ~r.panicked
                   /\ r.prs[id].recent_active
                   /\ raft.prs[id].matched < last_index(raft) =>
                         \E i \in 1..Len(r.msgs) :
                             /\ r.msgs[i].to = id
                             /\ r.msgs[i].msg_type \in {"MsgAppend", "MsgSnapshot"}

\* The run of the split check is over, on a region of n entries of one size.
Checked(n, size) ==
    /\ run.phase = "done"
    /\ run.task = "region"
    /\ Len(run.entries) = n
    /\ \A i \in 1..n : entry_size(run.entries[i]) = size

\* The k-th key of a region in key order, without the prefix of a data key.
KthKey(k) == Format04(k - 1)

\* C30 as stated, for the entries of 10 bytes of tests::test_split_check: for
\* a region of 10 keys of one entry size, max_size = 100, split_size = 60 and
\* batch_split_limit = 5, the size split check under the Scan policy returns
\* exactly one split key, the 6th key of the region in key order.
C30_SixthKey == Checked(10, 10) => run.keys = <<KthKey(6)>>

\* C30, amended: with the 10 keys of 10 bytes each, the one split key is the 7th
\* key of the region (entry 0006 of tests::test_split_check): the 6th entry
\* brings the size to exactly split_size and does not split.  The 6th key is
\* the split key when the entries are of 11 or 12 bytes.
C30_SizeSplit ==
    /\ Checked(10, 10) => run.keys = <<KthKey(7)>>
    /\ \A size \in {11, 12} : Checked(10, size) => run.keys = <<KthKey(6)>>

C30_Witness ==
    /\ Checked(10, 10)
    /\ run.pos = 10
    /\ Len(run.keys) = 1

\* C26: in a group of three with an established leader and one follower
\* partitioned away, every entry in the leader's log is eventually committed on
\* the leader and on the connected follower; once the partition has healed, the
\* log of the follower that rejoins eventually holds every committed entry.
C26_Replication ==
    /\ \A i \in 1..MaxLog :
          (raft.state = "Leader" /\ last_index(raft) >= i) ~>
              (/\ raft.raft_log.committed >= i
               /\ group.peers[SelfId + 1].raft_log.committed >= i)
    /\ \A i \in 1..MaxLog :
          (group.cut = {} /\ raft.state = "Leader" /\ raft.raft_log.committed >= i) ~>
              (/\ last_index(group.peers[NumPeers]) >= i
               /\ log_term(group.peers[NumPeers], i) = log_term(raft, i))

\* The split keys the Scan checker has recorded when pos entries of 10 bytes
\* have been handed to it: those at the 0-based positions 6, 12, 18, ...
RECURSIVE SixStep(_)
SixStep(pos) ==
    IF pos < 7 THEN <<>>
    ELSE IF (pos - 1) % 6 = 0 THEN Append(SixStep(pos - 1), KthKey(pos))
    ELSE SixStep(pos - 1)

\* C31: fed the entries of a region in key order, the Scan checker records the
\* key of an entry, without the prefix of a data key, exactly when the size
\* accumulated since the split key before, this entry included, exceeds
\* split_size (and fewer than batch_split_limit keys are recorded); the
\* accumulation then restarts, at the size of this entry when the entry before
\* had brought it to exactly split_size, at 0 otherwise.  With entries of 10
\* bytes and split_size = 60 the recorded keys are those at the 0-based
\* positions 6, 12, 18, and a region smaller than region_max_size yields no
\* split key.
C31_Recorded ==
    /\ run.task = "region" /\ run.phase \in {"scan", "stopped"} /\ run.pos >= 1
         /\ (\A i \in 1..Len(run.entries) : entry_size(run.entries[i]) = 10)
       => run.checker.split_keys = SixStep(run.pos)
    /\ run.task = "region" /\ run.phase = "done"
         /\ region_size(run.entries) < RegionMaxSize
       => run.keys = <<>> /\ run.pos = 0

C31_OnKv ==
    OnKv =>
        LET c == run.checker
            entry == run.entries[run.pos + 1]
            acc == c.current_size + entry_size(entry)
            d == run'.checker
        IN IF acc > c.split_size /\ Len(c.split_keys) < c.batch_split_limit
           THEN /\ d.split_keys = Append(c.split_keys, Tail(entry.key))
                /\ d.current_size = IF c.current_size = c.split_size
                                    THEN entry_size(entry) ELSE 0
           ELSE /\ d.split_keys = c.split_keys
                /\ d.current_size = acc

C31_ScanSplitKeys == [](C31_Recorded) /\ [][C31_OnKv]_vars

\* 19 entries of 10 bytes are scanned: the keys 0006, 0012 and 0018 are recorded.
C31_Witness ==
    /\ run.task = "region"
    /\ run.phase = "scan"
    /\ run.pos = 19
    /\ \A i \in 1..19 : entry_size(run.entries[i]) = 10
    /\ Len(run.checker.split_keys) = 3
    /\ run.checker.current_size = 10

\* The size of the last part a returned split leaves: the entries of the region
\* from the last split key on.
LastPart ==
    LET last == run.keys[Len(run.keys)]
        at == CHOOSE i \in 1..Len(run.entries) : Tail(run.entries[i].key) = last
    IN region_size(SubSeq(run.entries, at, Len(run.entries)))

\* The drop rule of split_keys: the key recorded last is dropped exactly when
\* the tail, the size accumulated after it, is below max_size - split_size; a
\* scan that on_kv stopped keeps it, and the result is not empty.
C32_Drop ==
    SplitKeys =>
        LET c == run.checker
            tail == c.current_size
        IN /\ IF c.split_keys # <<>> /\ tail < c.max_size - c.split_size
              THEN run'.keys = SubSeq(c.split_keys, 1, Len(c.split_keys) - 1)
              ELSE run'.keys = c.split_keys
           /\ run.phase = "stopped" =>
                 /\ tail >= c.max_size - c.split_size
                 /\ run'.keys = c.split_keys
                 /\ run'.keys # <<>>

\* C32 as stated: the drop rule, and no returned split leaves a last part
\* smaller than max_size - split_size, whatever the sizes of the Checker.
C32_NoSmallLastPart ==
    /\ [](run.phase = "done" /\ run.keys # <<>> /\ run.task \in {"region", "checker"}
             => LastPart >= run.checker.max_size - run.checker.split_size)
    /\ [][C32_Drop]_vars

\* C32, amended: the drop rule holds as stated; the last part a returned split
\* leaves is not smaller than max_size - split_size when max_size is at most
\* twice split_size, as in every configuration of the repository (100 and 60,
\* 24 and 24, 20 and 10).  With a larger max_size the part left after a drop
\* can be smaller.
C32_TailDrop ==
    /\ [](run.phase = "done" /\ run.keys # <<>> /\ run.task \in {"region", "checker"}
                /\ run.checker.max_size <= 2 * run.checker.split_size
             => LastPart >= run.checker.max_size - run.checker.split_size)
    /\ [][C32_Drop]_vars

\* A key was dropped and another is returned, by a Checker whose max_size is
\* twice its split_size.
C32_Witness ==
    /\ run.phase = "done"
    /\ run.task = "checker"
    /\ run.checker.max_size = 2 * run.checker.split_size
    /\ run.keys # <<>>
    /\ run.checker.current_size + run.checker.split_size < run.checker.max_size

StrictlyAscending(keys) ==
    \A i \in 1..(Len(keys) - 1) : key_lt(keys[i], keys[i + 1])

\* Under the Scan policy: once batch_split_limit keys are recorded on_kv
\* records no further key, and it asks the scan to stop exactly when the limit
\* is reached and the size accumulated after the last split key plus
\* split_size reaches max_size.
C33_OnKv ==
    OnKv =>
        LET c == run.checker
            d == run'.checker
        IN /\ Len(c.split_keys) >= c.batch_split_limit => d.split_keys = c.split_keys
           /\ Len(d.split_keys) <= d.batch_split_limit
           /\ run'.phase = "stopped" <=>
                 /\ Len(d.split_keys) >= d.batch_split_limit
                 /\ d.current_size + d.split_size >= d.max_size

\* C33: one size split check never returns more than batch_split_limit split
\* keys, under the Scan policy and under the Approximate policy, and the keys
\* it returns are strictly ascending; under Scan, once batch_split_limit keys
\* are recorded no further key is recorded and on_kv asks the scan to stop as
\* soon as the size accumulated after the last split key plus split_size
\* reaches max_size.
C33_SplitLimit ==
    /\ [](run.phase = "done" /\ run.task \in {"region", "checker", "approximate"} =>
             /\ Len(run.keys) <= run.checker.batch_split_limit
             /\ StrictlyAscending(run.keys))
    /\ [][C33_OnKv]_vars

\* Every key of the region of a half split check forms its own bucket.
OwnBuckets ==
    \A i \in 1..Len(run.entries) : entry_size(run.entries[i]) >= run.checker.each_bucket_size

\* C34: for a region in which every key forms its own bucket (Scan policy) and
\* its own property sample (Approximate policy), the half split check returns
\* exactly one split key, the same under both policies: the middle key in key
\* order, the smaller of the two middle keys when the number of keys is even;
\* with 11 keys it is the key at the 0-based position 5.
C34_MiddleKey ==
    run.phase = "done" /\ run.task = "half" /\ OwnBuckets =>
        LET size == run.checker.each_bucket_size
            tables == OwnTables(run.entries)
        IN /\ run.keys = <<KthKey((Len(run.entries) - 1) \div 2 + 1)>>
           /\ HalfCheck(run.entries, tables, size, "SCAN")
                 = HalfCheck(run.entries, tables, size, "APPROXIMATE")
           /\ Len(run.entries) = 11 => run.keys = <<Format04(5)>>

\* What a candidate makes of a MsgRequestVoteResponse of peer from, of its own
\* term or without term.
Polled(from, t, rej) ==
    step(Taken, [Received("MsgRequestVoteResponse", from, t) EXCEPT !.reject = rej])

\* C36: a candidate counts at most one vote per peer in an election: the first
\* MsgRequestVoteResponse of a peer is recorded, also when the peer has no
\* recorded vote yet, and a later one of the same peer changes nothing.
C36_OneVote ==
    raft.state = "Candidate" /\ ~raft.panicked =>
        \A from \in Others, t \in {0, raft.hs.term}, rej \in BOOLEAN :
            LET r == Polled(from, t, rej)
            IN /\ ~r.panicked
               /\ from \notin DOMAIN raft.votes =>
                     from \in DOMAIN r.votes /\ r.votes[from] = ~rej
               /\ from \in DOMAIN raft.votes =>
                     from \in DOMAIN r.votes /\ r.votes[from] = raft.votes[from]

\* The leader would have to send a snapshot to peer to: its progress is not
\* paused and the entries from next_idx on are no longer all in the log.
NeedsSnapshot(to) ==
    /\ raft.state = "Leader"
    /\ ~raft.panicked
    /\ ~is_paused(raft.prs[to])
    /\ raft.prs[to].next_idx < first_index(raft)

\* C37: when a leader would have to send a snapshot to a peer but the peer is
\* not recently active, send_append emits no message of any type to that peer
\* and leaves the progress of the peer unchanged.
C37_NoSnapshotNoMessage ==
    \A to \in DOMAIN raft.prs \ {raft.id} :
        NeedsSnapshot(to) /\ ~raft.prs[to].recent_active =>
            LET r == send_append(Taken, to)
            IN /\ \A i \in 1..Len(r.msgs) : r.msgs[i].to # to
               /\ r.prs[to] = raft.prs[to]

\* What the peer makes of a MsgRequestVote of peer from.
Requested(from, t, idx, lt) ==
    step(Taken, [Received("MsgRequestVote", from, t) EXCEPT !.index = idx, !.log_term = lt])

VoteReplies(r) == {i \in 1..Len(r.msgs) : r.msgs[i].msg_type = "MsgRequestVoteResponse"}

\* Every MsgRequestVoteResponse is addressed to the sender of the request.
C38_ToSender ==
    ~raft.panicked =>
        \A from \in Others, t \in 0..MaxTerm, idx \in 0..MaxLog, lt \in 0..MaxTerm :
            (idx = 0) = (lt = 0) =>
                LET r == Requested(from, t, idx, lt)
                IN \A i \in VoteReplies(r) : r.msgs[i].to = from

\* A Candidate or Leader at the term of the request replies with reject = true
\* and keeps its vote.
C38_RejectAtTerm ==
    ~raft.panicked /\ raft.state \in {"Candidate", "Leader"} =>
        \A from \in Others, idx \in 0..MaxLog, lt \in 0..MaxTerm :
            (idx = 0) = (lt = 0) =>
                LET r == Requested(from, raft.hs.term, idx, lt)
                IN /\ \E i \in VoteReplies(r) : r.msgs[i].to = from /\ r.msgs[i].reject
                   /\ \A i \in VoteReplies(r) : r.msgs[i].reject
                   /\ r.hs.vote = raft.hs.vote

\* C38: every MsgRequestVoteResponse that a peer emits in reply to a
\* MsgRequestVote, whether it handles the request as Follower, Candidate or
\* Leader, is addressed to the peer that sent the request, and a Candidate or
\* Leader at the term of the request always replies with reject = true without
\* changing its own vote.
C38_VoteReply == C38_ToSender /\ C38_RejectAtTerm

\* The MsgHeartbeat messages of a struct's last call.
Heartbeats(r) == {i \in 1..Len(r.msgs) : r.msgs[i].msg_type = "MsgHeartbeat"}

\* Every heartbeat the leader has sent, and every one a MsgBeat would make it
\* send, carries min(match of the peer, committed) as its commit index.
C39_Sent ==
    raft.state = "Leader" /\ ~raft.panicked =>
        LET r == step(Taken, new_message(INVALID_ID, "MsgBeat", SelfId))
        IN /\ \A i \in Heartbeats(raft) :
                 raft.msgs[i].commit
                    = Min(raft.prs[raft.msgs[i].to].matched, raft.raft_log.committed)
           /\ \A to \in DOMAIN raft.prs \ {raft.id} :
                 \E i \in Heartbeats(r) :
                     /\ r.msgs[i].to = to
                     /\ r.msgs[i].commit = Min(raft.prs[to].matched, raft.raft_log.committed)

\* A peer that handles a heartbeat sets its committed index to the commit index
\* of the heartbeat or leaves it, and never above its last index.
C39_Handled ==
    ~raft.panicked =>
        \A from \in Others, t \in 0..MaxTerm, c \in 0..MaxLog :
            LET r == step(Taken, [Received("MsgHeartbeat", from, t) EXCEPT !.commit = c])
            IN ~r.panicked =>
                  /\ r.raft_log.committed <= last_index(r)
                  /\ r.raft_log.committed \in {raft.raft_log.committed, c}
                  /\ r.raft_log.committed >= raft.raft_log.committed

C39_NeverDecreases ==
    ~raft.panicked /\ ~raft'.panicked => raft'.raft_log.committed >= raft.raft_log.committed

Elected(r0, r) ==
    /\ ~r.panicked
    /\ r.state = "Leader"
    /\ last_index(r) = last_index(r0) + 1
    /\ log_entries(r, last_index(r0) + 1) = <<[NewEntry EXCEPT !.term = r.hs.term]>>
    /\ \A i \in 1..last_index(r0) : log_term(r, i) = log_term(r0, i)
    /\ \A id \in DOMAIN r.prs \ {r.id} :
          r.prs[id].next_idx = last_index(r0) + 1 /\ r.prs[id].matched = 0
    /\ r.pending_conf =
          (\E i \in 1..Len(r0.raft_log.ents) :
              /\ r0.raft_log.snap.index + i > r0.raft_log.committed
              /\ r0.raft_log.ents[i].entry_type = "EntryConfChange")

\* The acknowledgement of the last entry of the leader by peer from.
Acked(from) ==
    step(Taken, [Received("MsgAppendResponse", from, raft.hs.term) EXCEPT
                    !.index = last_index(raft)])

\* C40: on becoming Leader a peer appends exactly one empty Normal entry of its
\* current term at last_index + 1, the progress of every peer reset to next =
\* previous last_index + 1 with match = 0 for the others, and sets pending_conf
\* exactly when its log holds a conf change entry above its committed index;
\* in a single-voter group the empty entry is committed within the step of the
\* election, and in a larger group it is committed once a quorum acknowledges
\* it (in a group of two or three: once one other peer does).
C40_BecomeLeader ==
    /\ raft.state = "Candidate" /\ ~raft.panicked /\ raft.id \in DOMAIN raft.prs =>
          Elected(raft, become_leader(Taken))
    /\ raft.state # "Leader" /\ ~raft.panicked /\ DOMAIN raft.prs = {raft.id} =>
          LET r == step(Taken, new_message(INVALID_ID, "MsgHup", SelfId))
          IN Elected(raft, r) /\ r.raft_log.committed = last_index(r)
    /\ raft.state = "Leader" /\ ~raft.panicked /\ Cardinality(DOMAIN raft.prs) \in {2, 3}
          /\ raft.id \in DOMAIN raft.prs /\ last_term(raft) = raft.hs.term =>
          \A from \in DOMAIN raft.prs \ {raft.id} :
              Acked(from).raft_log.committed = last_index(raft)
====
